---------------------------- MODULE Spec2Model ----------------------------
(***************************************************************************)
(* Model of the avante.nvim repo-map definition extractor                   *)
(* (crates/avante-repo-map/src/lib.rs): the symbol builder that turns a     *)
(* stream of (capture name, syntax node) pairs into Definition records,     *)
(* and the serializer that renders them as the outline string.              *)
(*                                                                         *)
(* Text is a sequence of one-character strings, so that prefix, substring,  *)
(* case and ordering tests are computed as the code computes them.  Node    *)
(* kinds, field names, capture names and language tags are only ever        *)
(* compared for equality and are plain strings.  An Option is a sequence of *)
(* length 0 (None) or 1 (Some); a missing node is the node id 0.            *)
(***************************************************************************)
EXTENDS Integers, Sequences, FiniteSets, TLC

VARIABLES
  pc,              \* "idle" before the first call, "loop" inside the capture loop, "done" after a return
                   \* ("rendered" after a call of the serializer on its own)
  language,        \* the language tag of the current get_definitions_string call
  tree,            \* the syntax tree the parser built from the source of the current call
  stream,          \* the captures the query cursor has yielded so far in this call
  captured_nodes,  \* BTreeMap<String, Vec<usize>>: capture name -> node ids already seen
  class_def_map,   \* BTreeMap<String, RefCell<Class>>
  enum_def_map,    \* BTreeMap<String, RefCell<Enum>>
  union_def_map,   \* BTreeMap<String, RefCell<Union>>
  definitions,     \* Vec<Definition>
  result,          \* the string get_definitions_string returned (Ok value)
  error,           \* None, or Some(message) when get_definitions_string returned Err
  accepted,        \* history: the captures of this call that appended a member or a top-level symbol
  shadow,          \* the builder state of a second run on the input with one pub/public removed
  removed,         \* which declaration lost its pub/public in the second run (0: none)
  reentered,       \* history: a call had already returned when the current call was entered
  tokenizer,       \* State.tokenizer: the Mutex<Option<TokenizerType>> of the tokenizer module
  calls,           \* per thread: the from_pretrained or encode call it runs and how far it got
  serial           \* history: the same calls applied one at a time, in the order they took the lock

vars == <<pc, language, tree, stream, captured_nodes, class_def_map, enum_def_map,
          union_def_map, definitions, result, error, accepted, shadow, removed, reentered,
          tokenizer, calls, serial>>

\* The longest capture stream of one call.
MaxCaptures == 3

\* The longest definition list handed to the serializer on its own.
MaxDefinitions == 2

\* The number of from_pretrained and encode calls made on one State.
MaxCalls == 3

None == <<>>
Some(x) == <<x>>

(***************************************************************************)
(* Text constants                                                          *)
(***************************************************************************)
Str_class == <<"c","l","a","s","s">>
Str_module == <<"m","o","d","u","l","e">>
Str_void == <<"v","o","i","d">>
Str_pub == <<"p","u","b">>
Str_private == <<"p","r","i","v","a","t","e">>
Str_public == <<"p","u","b","l","i","c">>
Str_protected == <<"p","r","o","t","e","c","t","e","d">>
Str_parens == <<"(",")">>
Str_colons == <<":",":">>
Str_defmodule == <<"d","e","f","m","o","d","u","l","e"," ">>
Str_func == <<"f","u","n","c"," ">>
Str_var == <<"v","a","r"," ">>
Str_enum == <<"e","n","u","m"," ">>
Str_union == <<"u","n","i","o","n"," ">>
Str_arrow == <<" ","-",">"," ">>

\* The characters of the sample sources and of the outline syntax, in code-point order.
Alphabet ==
  <<"\n", " ", "(", ")", ",", "-", "1", ":", ";", ">", "A", "B", "C", "D", "F", "G", "J", "K", "M", "N", "P", "S", "T", "U", "V", "X", "Y", "a", "b", "c", "d", "e", "f", "g", "h", "i", "k", "l", "m", "n", "o", "p", "q", "r", "s", "t", "u", "v", "w", "x", "y", "z", "{", "}", "~">>

UpperChars == {"A","B","C","D","E","F","G","H","I","J","K","L","M",
               "N","O","P","Q","R","S","T","U","V","W","X","Y","Z"}

CharCode(c) == CHOOSE i \in 1..Len(Alphabet) : Alphabet[i] = c

\* str::starts_with
StartsWith(s, p) == Len(p) <= Len(s) /\ SubSeq(s, 1, Len(p)) = p

\* str::contains
Contains(s, p) ==
  \E i \in 0..(Len(s) - Len(p)) : SubSeq(s, i + 1, i + Len(p)) = p

\* Ord for String: byte-wise lexicographic
StrLess(a, b) ==
  \E i \in 1..(Len(b)) :
     /\ \A j \in 1..(i - 1) : j <= Len(a) /\ a[j] = b[j]
     /\ \/ i = Len(a) + 1
        \/ i <= Len(a) /\ CharCode(a[i]) < CharCode(b[i])

RECURSIVE JoinWith(_, _)
\* slice::join
JoinWith(parts, sep) ==
  IF parts = <<>> THEN <<>>
  ELSE IF Len(parts) = 1 THEN parts[1]
  ELSE parts[1] \o sep \o JoinWith(Tail(parts), sep)

Reverse(s) == [i \in 1..Len(s) |-> s[Len(s) + 1 - i]]

(***************************************************************************)
(* Sample syntax trees: one forest, one tree per grammar family.  A node    *)
(* has a kind, the field name under which its parent holds it, its parent,  *)
(* its children in source order and, for a leaf, its text.                  *)
(***************************************************************************)
SourceNodes ==
  <<
  [kind |-> "program", field |-> "", text |-> <<>>, parent |-> 0, kids |-> <<2, 8, 14, 18, 38>>],              \* 1
  [kind |-> "lexical_declaration", field |-> "", text |-> <<>>, parent |-> 1, kids |-> <<3>>],                 \* 2
  [kind |-> "variable_declarator", field |-> "", text |-> <<>>, parent |-> 2, kids |-> <<4, 5, 7>>],           \* 3 ts_v
  [kind |-> "identifier", field |-> "name", text |-> <<"v">>, parent |-> 3, kids |-> <<>>],                    \* 4
  [kind |-> "type_annotation", field |-> "type", text |-> <<>>, parent |-> 3, kids |-> <<6>>],                 \* 5
  [kind |-> "predefined_type", field |-> "", text |-> <<"T">>, parent |-> 5, kids |-> <<>>],                   \* 6
  [kind |-> "number", field |-> "value", text |-> <<"1">>, parent |-> 3, kids |-> <<>>],                       \* 7
  [kind |-> "lexical_declaration", field |-> "", text |-> <<>>, parent |-> 1, kids |-> <<9>>],                 \* 8
  [kind |-> "variable_declarator", field |-> "", text |-> <<>>, parent |-> 8, kids |-> <<10, 11>>],            \* 9 ts_h
  [kind |-> "identifier", field |-> "name", text |-> <<"h">>, parent |-> 9, kids |-> <<>>],                    \* 10
  [kind |-> "arrow_function", field |-> "value", text |-> <<>>, parent |-> 9, kids |-> <<12, 13>>],            \* 11
  [kind |-> "formal_parameters", field |-> "parameters", text |-> <<"(","a",")">>, parent |-> 11, kids |-> <<>>], \* 12
  [kind |-> "statement_block", field |-> "body", text |-> <<"{","}">>, parent |-> 11, kids |-> <<>>],          \* 13
  [kind |-> "function_declaration", field |-> "", text |-> <<>>, parent |-> 1, kids |-> <<15, 16, 17>>],       \* 14 ts_g
  [kind |-> "identifier", field |-> "name", text |-> <<"g">>, parent |-> 14, kids |-> <<>>],                   \* 15
  [kind |-> "formal_parameters", field |-> "parameters", text |-> <<"(",")">>, parent |-> 14, kids |-> <<>>],  \* 16
  [kind |-> "statement_block", field |-> "body", text |-> <<"{","}">>, parent |-> 14, kids |-> <<>>],          \* 17
  [kind |-> "class_declaration", field |-> "", text |-> <<>>, parent |-> 1, kids |-> <<19, 20>>],              \* 18 ts_K
  [kind |-> "type_identifier", field |-> "name", text |-> <<"K">>, parent |-> 18, kids |-> <<>>],              \* 19
  [kind |-> "class_body", field |-> "body", text |-> <<>>, parent |-> 18, kids |-> <<21, 26, 30, 34>>],        \* 20
  [kind |-> "method_definition", field |-> "", text |-> <<>>, parent |-> 20, kids |-> <<22, 23, 24>>],         \* 21 ts_Km
  [kind |-> "property_identifier", field |-> "name", text |-> <<"m">>, parent |-> 21, kids |-> <<>>],          \* 22
  [kind |-> "formal_parameters", field |-> "parameters", text |-> <<"(","a",")">>, parent |-> 21, kids |-> <<>>], \* 23
  [kind |-> "type_annotation", field |-> "return_type", text |-> <<>>, parent |-> 21, kids |-> <<25>>],        \* 24
  [kind |-> "predefined_type", field |-> "", text |-> <<"T">>, parent |-> 24, kids |-> <<>>],                  \* 25
  [kind |-> "public_field_definition", field |-> "", text |-> <<>>, parent |-> 20, kids |-> <<27, 28>>],       \* 26 ts_Kp
  [kind |-> "property_identifier", field |-> "name", text |-> <<"p">>, parent |-> 26, kids |-> <<>>],          \* 27
  [kind |-> "type_annotation", field |-> "type", text |-> <<>>, parent |-> 26, kids |-> <<29>>],               \* 28
  [kind |-> "predefined_type", field |-> "", text |-> <<"T">>, parent |-> 28, kids |-> <<>>],                  \* 29
  [kind |-> "method_definition", field |-> "", text |-> <<>>, parent |-> 20, kids |-> <<31, 32, 33>>],         \* 30 ts_Kn
  [kind |-> "accessibility_modifier", field |-> "", text |-> <<"p","r","i","v","a","t","e">>, parent |-> 30, kids |-> <<>>], \* 31
  [kind |-> "property_identifier", field |-> "name", text |-> <<"n">>, parent |-> 30, kids |-> <<>>],          \* 32
  [kind |-> "formal_parameters", field |-> "parameters", text |-> <<"(","a",")">>, parent |-> 30, kids |-> <<>>], \* 33
  [kind |-> "public_field_definition", field |-> "", text |-> <<>>, parent |-> 20, kids |-> <<35, 36>>],       \* 34 ts_Kq
  [kind |-> "property_identifier", field |-> "name", text |-> <<"q">>, parent |-> 34, kids |-> <<>>],          \* 35
  [kind |-> "type_annotation", field |-> "type", text |-> <<>>, parent |-> 34, kids |-> <<37>>],               \* 36
  [kind |-> "predefined_type", field |-> "", text |-> <<"T">>, parent |-> 36, kids |-> <<>>],                  \* 37
  [kind |-> "class_declaration", field |-> "", text |-> <<>>, parent |-> 1, kids |-> <<39, 40>>],              \* 38 ts_J
  [kind |-> "type_identifier", field |-> "name", text |-> <<"J">>, parent |-> 38, kids |-> <<>>],              \* 39
  [kind |-> "class_body", field |-> "body", text |-> <<>>, parent |-> 38, kids |-> <<41>>],                    \* 40
  [kind |-> "method_definition", field |-> "", text |-> <<>>, parent |-> 40, kids |-> <<42, 43, 44>>],         \* 41 ts_Jm
  [kind |-> "property_identifier", field |-> "name", text |-> <<"m">>, parent |-> 41, kids |-> <<>>],          \* 42
  [kind |-> "formal_parameters", field |-> "parameters", text |-> <<"(","a",")">>, parent |-> 41, kids |-> <<>>], \* 43
  [kind |-> "type_annotation", field |-> "return_type", text |-> <<>>, parent |-> 41, kids |-> <<45>>],        \* 44
  [kind |-> "predefined_type", field |-> "", text |-> <<"T">>, parent |-> 44, kids |-> <<>>],                  \* 45
  [kind |-> "source_file", field |-> "", text |-> <<>>, parent |-> 0, kids |-> <<47, 55, 65, 79>>],            \* 46
  [kind |-> "struct_item", field |-> "", text |-> <<>>, parent |-> 46, kids |-> <<48, 49, 50>>],               \* 47 rs_A
  [kind |-> "visibility_modifier", field |-> "", text |-> <<"p","u","b","(","c","r","a","t","e",")">>, parent |-> 47, kids |-> <<>>], \* 48
  [kind |-> "type_identifier", field |-> "name", text |-> <<"A">>, parent |-> 47, kids |-> <<>>],              \* 49
  [kind |-> "field_declaration_list", field |-> "body", text |-> <<>>, parent |-> 47, kids |-> <<51>>],        \* 50
  [kind |-> "field_declaration", field |-> "", text |-> <<>>, parent |-> 50, kids |-> <<52, 53, 54>>],         \* 51 rs_Af
  [kind |-> "visibility_modifier", field |-> "", text |-> <<"p","u","b">>, parent |-> 51, kids |-> <<>>],      \* 52
  [kind |-> "field_identifier", field |-> "name", text |-> <<"f">>, parent |-> 51, kids |-> <<>>],             \* 53
  [kind |-> "type_identifier", field |-> "type", text |-> <<"T">>, parent |-> 51, kids |-> <<>>],              \* 54
  [kind |-> "mod_item", field |-> "", text |-> <<>>, parent |-> 46, kids |-> <<56, 57>>],                      \* 55
  [kind |-> "identifier", field |-> "name", text |-> <<"x">>, parent |-> 55, kids |-> <<>>],                   \* 56
  [kind |-> "declaration_list", field |-> "body", text |-> <<>>, parent |-> 55, kids |-> <<58>>],              \* 57
  [kind |-> "struct_item", field |-> "", text |-> <<>>, parent |-> 57, kids |-> <<59, 60>>],                   \* 58 rs_A2
  [kind |-> "type_identifier", field |-> "name", text |-> <<"A">>, parent |-> 58, kids |-> <<>>],              \* 59
  [kind |-> "field_declaration_list", field |-> "body", text |-> <<>>, parent |-> 58, kids |-> <<61>>],        \* 60
  [kind |-> "field_declaration", field |-> "", text |-> <<>>, parent |-> 60, kids |-> <<62, 63, 64>>],         \* 61 rs_A2f
  [kind |-> "visibility_modifier", field |-> "", text |-> <<"p","u","b">>, parent |-> 61, kids |-> <<>>],      \* 62
  [kind |-> "field_identifier", field |-> "name", text |-> <<"f">>, parent |-> 61, kids |-> <<>>],             \* 63
  [kind |-> "type_identifier", field |-> "type", text |-> <<"T">>, parent |-> 61, kids |-> <<>>],              \* 64
  [kind |-> "impl_item", field |-> "", text |-> <<>>, parent |-> 46, kids |-> <<66, 67>>],                     \* 65
  [kind |-> "type_identifier", field |-> "type", text |-> <<"A">>, parent |-> 65, kids |-> <<>>],              \* 66
  [kind |-> "declaration_list", field |-> "body", text |-> <<>>, parent |-> 65, kids |-> <<68, 74>>],          \* 67
  [kind |-> "function_item", field |-> "", text |-> <<>>, parent |-> 67, kids |-> <<69, 70, 71, 72, 73>>],     \* 68 rs_n
  [kind |-> "visibility_modifier", field |-> "", text |-> <<"p","u","b">>, parent |-> 68, kids |-> <<>>],      \* 69
  [kind |-> "identifier", field |-> "name", text |-> <<"n">>, parent |-> 68, kids |-> <<>>],                   \* 70
  [kind |-> "parameters", field |-> "parameters", text |-> <<"(","a",")">>, parent |-> 68, kids |-> <<>>],     \* 71
  [kind |-> "type_identifier", field |-> "return_type", text |-> <<"T">>, parent |-> 68, kids |-> <<>>],       \* 72
  [kind |-> "block", field |-> "body", text |-> <<"{","}">>, parent |-> 68, kids |-> <<>>],                    \* 73
  [kind |-> "function_item", field |-> "", text |-> <<>>, parent |-> 67, kids |-> <<75, 76, 77, 78>>],         \* 74 rs_n2
  [kind |-> "identifier", field |-> "name", text |-> <<"n">>, parent |-> 74, kids |-> <<>>],                   \* 75
  [kind |-> "parameters", field |-> "parameters", text |-> <<"(","a",")">>, parent |-> 74, kids |-> <<>>],     \* 76
  [kind |-> "type_identifier", field |-> "return_type", text |-> <<"T">>, parent |-> 74, kids |-> <<>>],       \* 77
  [kind |-> "block", field |-> "body", text |-> <<"{","}">>, parent |-> 74, kids |-> <<>>],                    \* 78
  [kind |-> "function_item", field |-> "", text |-> <<>>, parent |-> 46, kids |-> <<80, 81, 82, 83>>],         \* 79 rs_g
  [kind |-> "visibility_modifier", field |-> "", text |-> <<"p","u","b">>, parent |-> 79, kids |-> <<>>],      \* 80
  [kind |-> "identifier", field |-> "name", text |-> <<"g">>, parent |-> 79, kids |-> <<>>],                   \* 81
  [kind |-> "parameters", field |-> "parameters", text |-> <<"(","a",")">>, parent |-> 79, kids |-> <<>>],     \* 82
  [kind |-> "block", field |-> "body", text |-> <<"{","}">>, parent |-> 79, kids |-> <<>>],                    \* 83
  [kind |-> "source_file", field |-> "", text |-> <<>>, parent |-> 0, kids |-> <<85, 89, 93, 104, 114, 124>>], \* 84
  [kind |-> "const_declaration", field |-> "", text |-> <<>>, parent |-> 84, kids |-> <<86>>],                 \* 85
  [kind |-> "const_spec", field |-> "", text |-> <<>>, parent |-> 85, kids |-> <<87, 88>>],                    \* 86 go_V
  [kind |-> "identifier", field |-> "name", text |-> <<"V">>, parent |-> 86, kids |-> <<>>],                   \* 87
  [kind |-> "type_identifier", field |-> "type", text |-> <<"T">>, parent |-> 86, kids |-> <<>>],              \* 88
  [kind |-> "const_declaration", field |-> "", text |-> <<>>, parent |-> 84, kids |-> <<90>>],                 \* 89
  [kind |-> "const_spec", field |-> "", text |-> <<>>, parent |-> 89, kids |-> <<91, 92>>],                    \* 90 go_w
  [kind |-> "identifier", field |-> "name", text |-> <<"w">>, parent |-> 90, kids |-> <<>>],                   \* 91
  [kind |-> "type_identifier", field |-> "type", text |-> <<"T">>, parent |-> 90, kids |-> <<>>],              \* 92
  [kind |-> "type_declaration", field |-> "", text |-> <<>>, parent |-> 84, kids |-> <<94>>],                  \* 93
  [kind |-> "type_spec", field |-> "", text |-> <<>>, parent |-> 93, kids |-> <<95, 96>>],                     \* 94 go_S
  [kind |-> "type_identifier", field |-> "name", text |-> <<"S">>, parent |-> 94, kids |-> <<>>],              \* 95
  [kind |-> "struct_type", field |-> "type", text |-> <<>>, parent |-> 94, kids |-> <<97>>],                   \* 96
  [kind |-> "field_declaration_list", field |-> "", text |-> <<>>, parent |-> 96, kids |-> <<98, 101>>],       \* 97
  [kind |-> "field_declaration", field |-> "", text |-> <<>>, parent |-> 97, kids |-> <<99, 100>>],            \* 98 go_F
  [kind |-> "field_identifier", field |-> "name", text |-> <<"F">>, parent |-> 98, kids |-> <<>>],             \* 99
  [kind |-> "type_identifier", field |-> "type", text |-> <<"T">>, parent |-> 98, kids |-> <<>>],              \* 100
  [kind |-> "field_declaration", field |-> "", text |-> <<>>, parent |-> 97, kids |-> <<102, 103>>],           \* 101 go_e
  [kind |-> "field_identifier", field |-> "name", text |-> <<"e">>, parent |-> 101, kids |-> <<>>],            \* 102
  [kind |-> "type_identifier", field |-> "type", text |-> <<"T">>, parent |-> 101, kids |-> <<>>],             \* 103
  [kind |-> "method_declaration", field |-> "", text |-> <<>>, parent |-> 84, kids |-> <<105, 110, 111, 112, 113>>], \* 104 go_M
  [kind |-> "parameter_list", field |-> "receiver", text |-> <<>>, parent |-> 104, kids |-> <<106>>],          \* 105
  [kind |-> "parameter_declaration", field |-> "", text |-> <<>>, parent |-> 105, kids |-> <<107, 108>>],      \* 106
  [kind |-> "identifier", field |-> "name", text |-> <<"r">>, parent |-> 106, kids |-> <<>>],                  \* 107
  [kind |-> "pointer_type", field |-> "type", text |-> <<>>, parent |-> 106, kids |-> <<109>>],                \* 108
  [kind |-> "type_identifier", field |-> "", text |-> <<"S">>, parent |-> 108, kids |-> <<>>],                 \* 109
  [kind |-> "field_identifier", field |-> "name", text |-> <<"M">>, parent |-> 104, kids |-> <<>>],            \* 110
  [kind |-> "parameter_list", field |-> "parameters", text |-> <<"(","a",")">>, parent |-> 104, kids |-> <<>>], \* 111
  [kind |-> "type_identifier", field |-> "result", text |-> <<"T">>, parent |-> 104, kids |-> <<>>],           \* 112
  [kind |-> "block", field |-> "body", text |-> <<"{","}">>, parent |-> 104, kids |-> <<>>],                   \* 113
  [kind |-> "method_declaration", field |-> "", text |-> <<>>, parent |-> 84, kids |-> <<115, 120, 121, 122, 123>>], \* 114 go_N
  [kind |-> "parameter_list", field |-> "receiver", text |-> <<>>, parent |-> 114, kids |-> <<116>>],          \* 115
  [kind |-> "parameter_declaration", field |-> "", text |-> <<>>, parent |-> 115, kids |-> <<117, 118>>],      \* 116
  [kind |-> "identifier", field |-> "name", text |-> <<"r">>, parent |-> 116, kids |-> <<>>],                  \* 117
  [kind |-> "pointer_type", field |-> "type", text |-> <<>>, parent |-> 116, kids |-> <<119>>],                \* 118
  [kind |-> "type_identifier", field |-> "", text |-> <<"s">>, parent |-> 118, kids |-> <<>>],                 \* 119
  [kind |-> "field_identifier", field |-> "name", text |-> <<"N">>, parent |-> 114, kids |-> <<>>],            \* 120
  [kind |-> "parameter_list", field |-> "parameters", text |-> <<"(","a",")">>, parent |-> 114, kids |-> <<>>], \* 121
  [kind |-> "type_identifier", field |-> "result", text |-> <<"T">>, parent |-> 114, kids |-> <<>>],           \* 122
  [kind |-> "block", field |-> "body", text |-> <<"{","}">>, parent |-> 114, kids |-> <<>>],                   \* 123
  [kind |-> "function_declaration", field |-> "", text |-> <<>>, parent |-> 84, kids |-> <<125, 126, 127>>],   \* 124 go_G
  [kind |-> "identifier", field |-> "name", text |-> <<"G">>, parent |-> 124, kids |-> <<>>],                  \* 125
  [kind |-> "parameter_list", field |-> "parameters", text |-> <<"(",")">>, parent |-> 124, kids |-> <<>>],    \* 126
  [kind |-> "block", field |-> "body", text |-> <<"{","}">>, parent |-> 124, kids |-> <<>>],                   \* 127
  [kind |-> "source_file", field |-> "", text |-> <<>>, parent |-> 0, kids |-> <<129, 134, 138, 153, 167, 182, 443, 449, 455>>], \* 128
  [kind |-> "variable_declaration", field |-> "", text |-> <<>>, parent |-> 128, kids |-> <<130, 131, 132, 133>>], \* 129
  [kind |-> "pub", field |-> "", text |-> <<"p","u","b">>, parent |-> 129, kids |-> <<>>],                     \* 130
  [kind |-> "const", field |-> "", text |-> <<"c","o","n","s","t">>, parent |-> 129, kids |-> <<>>],           \* 131
  [kind |-> "identifier", field |-> "", text |-> <<"V">>, parent |-> 129, kids |-> <<>>],                      \* 132 zg_V
  [kind |-> "builtin_type", field |-> "type", text |-> <<"T">>, parent |-> 129, kids |-> <<>>],                \* 133
  [kind |-> "variable_declaration", field |-> "", text |-> <<>>, parent |-> 128, kids |-> <<135, 136, 137>>],  \* 134
  [kind |-> "const", field |-> "", text |-> <<"c","o","n","s","t">>, parent |-> 134, kids |-> <<>>],           \* 135
  [kind |-> "identifier", field |-> "", text |-> <<"V">>, parent |-> 134, kids |-> <<>>],                      \* 136 zg_V2
  [kind |-> "builtin_type", field |-> "type", text |-> <<"T">>, parent |-> 134, kids |-> <<>>],                \* 137
  [kind |-> "variable_declaration", field |-> "", text |-> <<>>, parent |-> 128, kids |-> <<139, 140, 141, 142>>], \* 138
  [kind |-> "pub", field |-> "", text |-> <<"p","u","b">>, parent |-> 138, kids |-> <<>>],                     \* 139
  [kind |-> "const", field |-> "", text |-> <<"c","o","n","s","t">>, parent |-> 138, kids |-> <<>>],           \* 140
  [kind |-> "identifier", field |-> "", text |-> <<"S">>, parent |-> 138, kids |-> <<>>],                      \* 141
  [kind |-> "struct_declaration", field |-> "", text |-> <<>>, parent |-> 138, kids |-> <<143, 146>>],         \* 142
  [kind |-> "container_field", field |-> "", text |-> <<>>, parent |-> 142, kids |-> <<144, 145>>],            \* 143 zg_f
  [kind |-> "identifier", field |-> "name", text |-> <<"f">>, parent |-> 143, kids |-> <<>>],                  \* 144
  [kind |-> "builtin_type", field |-> "type", text |-> <<"T">>, parent |-> 143, kids |-> <<>>],                \* 145
  [kind |-> "function_declaration", field |-> "", text |-> <<>>, parent |-> 142, kids |-> <<147, 148, 149, 150, 151, 152>>], \* 146
  [kind |-> "pub", field |-> "", text |-> <<"p","u","b">>, parent |-> 146, kids |-> <<>>],                     \* 147
  [kind |-> "fn", field |-> "", text |-> <<"f","n">>, parent |-> 146, kids |-> <<>>],                          \* 148
  [kind |-> "identifier", field |-> "name", text |-> <<"m">>, parent |-> 146, kids |-> <<>>],                  \* 149 zg_m
  [kind |-> "parameters", field |-> "", text |-> <<"(","a",")">>, parent |-> 146, kids |-> <<>>],              \* 150
  [kind |-> "builtin_type", field |-> "type", text |-> <<"T">>, parent |-> 146, kids |-> <<>>],                \* 151
  [kind |-> "block", field |-> "body", text |-> <<"{","}">>, parent |-> 146, kids |-> <<>>],                   \* 152
  [kind |-> "variable_declaration", field |-> "", text |-> <<>>, parent |-> 128, kids |-> <<154, 155, 156>>],  \* 153
  [kind |-> "const", field |-> "", text |-> <<"c","o","n","s","t">>, parent |-> 153, kids |-> <<>>],           \* 154
  [kind |-> "identifier", field |-> "", text |-> <<"S">>, parent |-> 153, kids |-> <<>>],                      \* 155
  [kind |-> "struct_declaration", field |-> "", text |-> <<>>, parent |-> 153, kids |-> <<157, 160>>],         \* 156
  [kind |-> "container_field", field |-> "", text |-> <<>>, parent |-> 156, kids |-> <<158, 159>>],            \* 157 zg_f2
  [kind |-> "identifier", field |-> "name", text |-> <<"f">>, parent |-> 157, kids |-> <<>>],                  \* 158
  [kind |-> "builtin_type", field |-> "type", text |-> <<"T">>, parent |-> 157, kids |-> <<>>],                \* 159
  [kind |-> "function_declaration", field |-> "", text |-> <<>>, parent |-> 156, kids |-> <<161, 162, 163, 164, 165, 166>>], \* 160
  [kind |-> "pub", field |-> "", text |-> <<"p","u","b">>, parent |-> 160, kids |-> <<>>],                     \* 161
  [kind |-> "fn", field |-> "", text |-> <<"f","n">>, parent |-> 160, kids |-> <<>>],                          \* 162
  [kind |-> "identifier", field |-> "name", text |-> <<"m">>, parent |-> 160, kids |-> <<>>],                  \* 163 zg_m2
  [kind |-> "parameters", field |-> "", text |-> <<"(","a",")">>, parent |-> 160, kids |-> <<>>],              \* 164
  [kind |-> "builtin_type", field |-> "type", text |-> <<"T">>, parent |-> 160, kids |-> <<>>],                \* 165
  [kind |-> "block", field |-> "body", text |-> <<"{","}">>, parent |-> 160, kids |-> <<>>],                   \* 166
  [kind |-> "variable_declaration", field |-> "", text |-> <<>>, parent |-> 128, kids |-> <<168, 169, 170, 171>>], \* 167
  [kind |-> "pub", field |-> "", text |-> <<"p","u","b">>, parent |-> 167, kids |-> <<>>],                     \* 168
  [kind |-> "const", field |-> "", text |-> <<"c","o","n","s","t">>, parent |-> 167, kids |-> <<>>],           \* 169
  [kind |-> "identifier", field |-> "", text |-> <<"U">>, parent |-> 167, kids |-> <<>>],                      \* 170
  [kind |-> "union_declaration", field |-> "", text |-> <<>>, parent |-> 167, kids |-> <<172, 175>>],          \* 171
  [kind |-> "container_field", field |-> "", text |-> <<>>, parent |-> 171, kids |-> <<173, 174>>],            \* 172
  [kind |-> "identifier", field |-> "name", text |-> <<"x">>, parent |-> 172, kids |-> <<>>],                  \* 173 zg_x
  [kind |-> "builtin_type", field |-> "type", text |-> <<"T">>, parent |-> 172, kids |-> <<>>],                \* 174
  [kind |-> "variable_declaration", field |-> "", text |-> <<>>, parent |-> 171, kids |-> <<176, 177, 178, 179>>], \* 175
  [kind |-> "pub", field |-> "", text |-> <<"p","u","b">>, parent |-> 175, kids |-> <<>>],                     \* 176
  [kind |-> "const", field |-> "", text |-> <<"c","o","n","s","t">>, parent |-> 175, kids |-> <<>>],           \* 177
  [kind |-> "identifier", field |-> "", text |-> <<"S">>, parent |-> 175, kids |-> <<>>],                      \* 178
  [kind |-> "enum_declaration", field |-> "", text |-> <<>>, parent |-> 175, kids |-> <<180>>],                \* 179
  [kind |-> "container_field", field |-> "", text |-> <<>>, parent |-> 179, kids |-> <<181>>],                 \* 180
  [kind |-> "identifier", field |-> "type", text |-> <<"a">>, parent |-> 180, kids |-> <<>>],                  \* 181 zg_a
  [kind |-> "function_declaration", field |-> "", text |-> <<>>, parent |-> 128, kids |-> <<183, 184, 185, 186, 187, 188>>], \* 182 zg_g
  [kind |-> "pub", field |-> "", text |-> <<"p","u","b">>, parent |-> 182, kids |-> <<>>],                     \* 183
  [kind |-> "fn", field |-> "", text |-> <<"f","n">>, parent |-> 182, kids |-> <<>>],                          \* 184
  [kind |-> "identifier", field |-> "name", text |-> <<"g">>, parent |-> 182, kids |-> <<>>],                  \* 185
  [kind |-> "parameters", field |-> "", text |-> <<"(",")">>, parent |-> 182, kids |-> <<>>],                  \* 186
  [kind |-> "builtin_type", field |-> "type", text |-> <<"T">>, parent |-> 182, kids |-> <<>>],                \* 187
  [kind |-> "block", field |-> "body", text |-> <<"{","}">>, parent |-> 182, kids |-> <<>>],                   \* 188
  [kind |-> "source_file", field |-> "", text |-> <<>>, parent |-> 0, kids |-> <<190, 194, 196, 200, 216>>],   \* 189
  [kind |-> "property_declaration", field |-> "", text |-> <<>>, parent |-> 189, kids |-> <<191, 193>>],       \* 190 sw_v
  [kind |-> "modifiers", field |-> "", text |-> <<>>, parent |-> 190, kids |-> <<192>>],                       \* 191
  [kind |-> "visibility_modifier", field |-> "", text |-> <<"p","u","b","l","i","c">>, parent |-> 191, kids |-> <<>>], \* 192
  [kind |-> "pattern", field |-> "name", text |-> <<"v">>, parent |-> 190, kids |-> <<>>],                     \* 193
  [kind |-> "property_declaration", field |-> "", text |-> <<>>, parent |-> 189, kids |-> <<195>>],            \* 194 sw_v2
  [kind |-> "pattern", field |-> "name", text |-> <<"v">>, parent |-> 194, kids |-> <<>>],                     \* 195
  [kind |-> "property_declaration", field |-> "", text |-> <<>>, parent |-> 189, kids |-> <<197, 199>>],       \* 196 sw_w
  [kind |-> "modifiers", field |-> "", text |-> <<>>, parent |-> 196, kids |-> <<198>>],                       \* 197
  [kind |-> "visibility_modifier", field |-> "", text |-> <<"p","r","i","v","a","t","e">>, parent |-> 197, kids |-> <<>>], \* 198
  [kind |-> "pattern", field |-> "name", text |-> <<"w">>, parent |-> 196, kids |-> <<>>],                     \* 199
  [kind |-> "class_declaration", field |-> "", text |-> <<>>, parent |-> 189, kids |-> <<201, 202>>],          \* 200 sw_K
  [kind |-> "type_identifier", field |-> "name", text |-> <<"K">>, parent |-> 200, kids |-> <<>>],             \* 201
  [kind |-> "class_body", field |-> "body", text |-> <<>>, parent |-> 200, kids |-> <<203, 208, 211>>],        \* 202
  [kind |-> "function_declaration", field |-> "", text |-> <<>>, parent |-> 202, kids |-> <<204, 206, 207>>],  \* 203 sw_m
  [kind |-> "modifiers", field |-> "", text |-> <<>>, parent |-> 203, kids |-> <<205>>],                       \* 204
  [kind |-> "visibility_modifier", field |-> "", text |-> <<"p","u","b","l","i","c">>, parent |-> 204, kids |-> <<>>], \* 205
  [kind |-> "simple_identifier", field |-> "name", text |-> <<"m">>, parent |-> 203, kids |-> <<>>],           \* 206
  [kind |-> "function_body", field |-> "body", text |-> <<"{","}">>, parent |-> 203, kids |-> <<>>],           \* 207
  [kind |-> "function_declaration", field |-> "", text |-> <<>>, parent |-> 202, kids |-> <<209, 210>>],       \* 208 sw_m2
  [kind |-> "simple_identifier", field |-> "name", text |-> <<"m">>, parent |-> 208, kids |-> <<>>],           \* 209
  [kind |-> "function_body", field |-> "body", text |-> <<"{","}">>, parent |-> 208, kids |-> <<>>],           \* 210
  [kind |-> "function_declaration", field |-> "", text |-> <<>>, parent |-> 202, kids |-> <<212, 214, 215>>],  \* 211 sw_k
  [kind |-> "modifiers", field |-> "", text |-> <<>>, parent |-> 211, kids |-> <<213>>],                       \* 212
  [kind |-> "visibility_modifier", field |-> "", text |-> <<"p","r","i","v","a","t","e">>, parent |-> 212, kids |-> <<>>], \* 213
  [kind |-> "simple_identifier", field |-> "name", text |-> <<"k">>, parent |-> 211, kids |-> <<>>],           \* 214
  [kind |-> "function_body", field |-> "body", text |-> <<"{","}">>, parent |-> 211, kids |-> <<>>],           \* 215
  [kind |-> "function_declaration", field |-> "", text |-> <<>>, parent |-> 189, kids |-> <<217, 218>>],       \* 216 sw_g
  [kind |-> "simple_identifier", field |-> "name", text |-> <<"g">>, parent |-> 216, kids |-> <<>>],           \* 217
  [kind |-> "function_body", field |-> "body", text |-> <<"{","}">>, parent |-> 216, kids |-> <<>>],           \* 218
  [kind |-> "program", field |-> "", text |-> <<>>, parent |-> 0, kids |-> <<220>>],                           \* 219
  [kind |-> "class_declaration", field |-> "", text |-> <<>>, parent |-> 219, kids |-> <<221, 223, 224>>],     \* 220 jv_K
  [kind |-> "modifiers", field |-> "", text |-> <<>>, parent |-> 220, kids |-> <<222>>],                       \* 221
  [kind |-> "public", field |-> "", text |-> <<"p","u","b","l","i","c">>, parent |-> 221, kids |-> <<>>],      \* 222
  [kind |-> "identifier", field |-> "name", text |-> <<"K">>, parent |-> 220, kids |-> <<>>],                  \* 223
  [kind |-> "class_body", field |-> "body", text |-> <<>>, parent |-> 220, kids |-> <<225, 232, 237>>],        \* 224
  [kind |-> "method_declaration", field |-> "", text |-> <<>>, parent |-> 224, kids |-> <<226, 228, 229, 230, 231>>], \* 225 jv_m
  [kind |-> "modifiers", field |-> "", text |-> <<>>, parent |-> 225, kids |-> <<227>>],                       \* 226
  [kind |-> "public", field |-> "", text |-> <<"p","u","b","l","i","c">>, parent |-> 226, kids |-> <<>>],      \* 227
  [kind |-> "void_type", field |-> "type", text |-> <<"v","o","i","d">>, parent |-> 225, kids |-> <<>>],       \* 228
  [kind |-> "identifier", field |-> "name", text |-> <<"m">>, parent |-> 225, kids |-> <<>>],                  \* 229
  [kind |-> "formal_parameters", field |-> "parameters", text |-> <<"(","a",")">>, parent |-> 225, kids |-> <<>>], \* 230
  [kind |-> "block", field |-> "body", text |-> <<"{","}">>, parent |-> 225, kids |-> <<>>],                   \* 231
  [kind |-> "method_declaration", field |-> "", text |-> <<>>, parent |-> 224, kids |-> <<233, 234, 235, 236>>], \* 232 jv_m2
  [kind |-> "void_type", field |-> "type", text |-> <<"v","o","i","d">>, parent |-> 232, kids |-> <<>>],       \* 233
  [kind |-> "identifier", field |-> "name", text |-> <<"m">>, parent |-> 232, kids |-> <<>>],                  \* 234
  [kind |-> "formal_parameters", field |-> "parameters", text |-> <<"(","a",")">>, parent |-> 232, kids |-> <<>>], \* 235
  [kind |-> "block", field |-> "body", text |-> <<"{","}">>, parent |-> 232, kids |-> <<>>],                   \* 236
  [kind |-> "method_declaration", field |-> "", text |-> <<>>, parent |-> 224, kids |-> <<238, 240, 241, 242, 243>>], \* 237 jv_k
  [kind |-> "modifiers", field |-> "", text |-> <<>>, parent |-> 237, kids |-> <<239>>],                       \* 238
  [kind |-> "private", field |-> "", text |-> <<"p","r","i","v","a","t","e">>, parent |-> 238, kids |-> <<>>], \* 239
  [kind |-> "void_type", field |-> "type", text |-> <<"v","o","i","d">>, parent |-> 237, kids |-> <<>>],       \* 240
  [kind |-> "identifier", field |-> "name", text |-> <<"k">>, parent |-> 237, kids |-> <<>>],                  \* 241
  [kind |-> "formal_parameters", field |-> "parameters", text |-> <<"(","a",")">>, parent |-> 237, kids |-> <<>>], \* 242
  [kind |-> "block", field |-> "body", text |-> <<"{","}">>, parent |-> 237, kids |-> <<>>],                   \* 243
  [kind |-> "compilation_unit", field |-> "", text |-> <<>>, parent |-> 0, kids |-> <<245>>],                  \* 244
  [kind |-> "class_declaration", field |-> "", text |-> <<>>, parent |-> 244, kids |-> <<246, 247, 248, 249>>], \* 245 cs_K
  [kind |-> "modifier", field |-> "", text |-> <<"p","u","b","l","i","c">>, parent |-> 245, kids |-> <<>>],    \* 246
  [kind |-> "identifier", field |-> "name", text |-> <<"K">>, parent |-> 245, kids |-> <<>>],                  \* 247
  [kind |-> "parameter_list", field |-> "", text |-> <<"(","a",")">>, parent |-> 245, kids |-> <<>>],          \* 248 cs_pc
  [kind |-> "declaration_list", field |-> "body", text |-> <<>>, parent |-> 245, kids |-> <<250, 256, 261, 267, 272>>], \* 249
  [kind |-> "method_declaration", field |-> "", text |-> <<>>, parent |-> 249, kids |-> <<251, 252, 253, 254, 255>>], \* 250 cs_M
  [kind |-> "modifier", field |-> "", text |-> <<"p","u","b","l","i","c">>, parent |-> 250, kids |-> <<>>],    \* 251
  [kind |-> "predefined_type", field |-> "returns", text |-> <<"T">>, parent |-> 250, kids |-> <<>>],          \* 252
  [kind |-> "identifier", field |-> "name", text |-> <<"M">>, parent |-> 250, kids |-> <<>>],                  \* 253
  [kind |-> "parameter_list", field |-> "parameters", text |-> <<"(",")">>, parent |-> 250, kids |-> <<>>],    \* 254
  [kind |-> "block", field |-> "body", text |-> <<"{","}">>, parent |-> 250, kids |-> <<>>],                   \* 255
  [kind |-> "method_declaration", field |-> "", text |-> <<>>, parent |-> 249, kids |-> <<257, 258, 259, 260>>], \* 256 cs_M2
  [kind |-> "predefined_type", field |-> "returns", text |-> <<"T">>, parent |-> 256, kids |-> <<>>],          \* 257
  [kind |-> "identifier", field |-> "name", text |-> <<"M">>, parent |-> 256, kids |-> <<>>],                  \* 258
  [kind |-> "parameter_list", field |-> "parameters", text |-> <<"(",")">>, parent |-> 256, kids |-> <<>>],    \* 259
  [kind |-> "block", field |-> "body", text |-> <<"{","}">>, parent |-> 256, kids |-> <<>>],                   \* 260
  [kind |-> "method_declaration", field |-> "", text |-> <<>>, parent |-> 249, kids |-> <<262, 263, 264, 265, 266>>], \* 261 cs_P
  [kind |-> "modifier", field |-> "", text |-> <<"p","r","i","v","a","t","e">>, parent |-> 261, kids |-> <<>>], \* 262
  [kind |-> "predefined_type", field |-> "returns", text |-> <<"T">>, parent |-> 261, kids |-> <<>>],          \* 263
  [kind |-> "identifier", field |-> "name", text |-> <<"P">>, parent |-> 261, kids |-> <<>>],                  \* 264
  [kind |-> "parameter_list", field |-> "parameters", text |-> <<"(",")">>, parent |-> 261, kids |-> <<>>],    \* 265
  [kind |-> "block", field |-> "body", text |-> <<"{","}">>, parent |-> 261, kids |-> <<>>],                   \* 266
  [kind |-> "constructor_declaration", field |-> "", text |-> <<>>, parent |-> 249, kids |-> <<268, 269, 270, 271>>], \* 267 cs_c
  [kind |-> "modifier", field |-> "", text |-> <<"p","u","b","l","i","c">>, parent |-> 267, kids |-> <<>>],    \* 268
  [kind |-> "identifier", field |-> "name", text |-> <<"K">>, parent |-> 267, kids |-> <<>>],                  \* 269
  [kind |-> "parameter_list", field |-> "parameters", text |-> <<"(",")">>, parent |-> 267, kids |-> <<>>],    \* 270
  [kind |-> "block", field |-> "body", text |-> <<"{","}">>, parent |-> 267, kids |-> <<>>],                   \* 271
  [kind |-> "field_declaration", field |-> "", text |-> <<>>, parent |-> 249, kids |-> <<273, 274>>],          \* 272 cs_F
  [kind |-> "modifier", field |-> "", text |-> <<"p","u","b","l","i","c">>, parent |-> 272, kids |-> <<>>],    \* 273
  [kind |-> "variable_declaration", field |-> "", text |-> <<>>, parent |-> 272, kids |-> <<275, 276>>],       \* 274
  [kind |-> "predefined_type", field |-> "type", text |-> <<"T">>, parent |-> 274, kids |-> <<>>],             \* 275
  [kind |-> "variable_declarator", field |-> "", text |-> <<>>, parent |-> 274, kids |-> <<277>>],             \* 276
  [kind |-> "identifier", field |-> "name", text |-> <<"F">>, parent |-> 276, kids |-> <<>>],                  \* 277
  [kind |-> "translation_unit", field |-> "", text |-> <<>>, parent |-> 0, kids |-> <<279, 298, 305, 311>>],   \* 278
  [kind |-> "class_specifier", field |-> "", text |-> <<>>, parent |-> 278, kids |-> <<280, 281>>],            \* 279 cp_K
  [kind |-> "type_identifier", field |-> "name", text |-> <<"K">>, parent |-> 279, kids |-> <<>>],             \* 280
  [kind |-> "field_declaration_list", field |-> "body", text |-> <<>>, parent |-> 279, kids |-> <<282, 286, 290, 295>>], \* 281
  [kind |-> "declaration", field |-> "", text |-> <<>>, parent |-> 281, kids |-> <<283>>],                     \* 282 cp_Kc
  [kind |-> "function_declarator", field |-> "declarator", text |-> <<>>, parent |-> 282, kids |-> <<284, 285>>], \* 283
  [kind |-> "identifier", field |-> "declarator", text |-> <<"K">>, parent |-> 283, kids |-> <<>>],            \* 284
  [kind |-> "parameter_list", field |-> "parameters", text |-> <<"(","a",")">>, parent |-> 283, kids |-> <<>>], \* 285
  [kind |-> "declaration", field |-> "", text |-> <<>>, parent |-> 281, kids |-> <<287>>],                     \* 286 cp_Kd
  [kind |-> "function_declarator", field |-> "declarator", text |-> <<>>, parent |-> 286, kids |-> <<288, 289>>], \* 287
  [kind |-> "destructor_name", field |-> "declarator", text |-> <<"~","K">>, parent |-> 287, kids |-> <<>>],   \* 288
  [kind |-> "parameter_list", field |-> "parameters", text |-> <<"(","a",")">>, parent |-> 287, kids |-> <<>>], \* 289
  [kind |-> "field_declaration", field |-> "", text |-> <<>>, parent |-> 281, kids |-> <<291, 292>>],          \* 290 cp_Km
  [kind |-> "primitive_type", field |-> "type", text |-> <<"T">>, parent |-> 290, kids |-> <<>>],              \* 291
  [kind |-> "function_declarator", field |-> "declarator", text |-> <<>>, parent |-> 290, kids |-> <<293, 294>>], \* 292
  [kind |-> "field_identifier", field |-> "declarator", text |-> <<"m">>, parent |-> 292, kids |-> <<>>],      \* 293
  [kind |-> "parameter_list", field |-> "parameters", text |-> <<"(","a",")">>, parent |-> 292, kids |-> <<>>], \* 294
  [kind |-> "field_declaration", field |-> "", text |-> <<>>, parent |-> 281, kids |-> <<296, 297>>],          \* 295 cp_Kf
  [kind |-> "primitive_type", field |-> "type", text |-> <<"T">>, parent |-> 295, kids |-> <<>>],              \* 296
  [kind |-> "field_identifier", field |-> "declarator", text |-> <<"f">>, parent |-> 295, kids |-> <<>>],      \* 297
  [kind |-> "struct_specifier", field |-> "", text |-> <<>>, parent |-> 278, kids |-> <<299, 300>>],           \* 298 cp_S
  [kind |-> "type_identifier", field |-> "name", text |-> <<"S">>, parent |-> 298, kids |-> <<>>],             \* 299
  [kind |-> "field_declaration_list", field |-> "body", text |-> <<>>, parent |-> 298, kids |-> <<301>>],      \* 300
  [kind |-> "declaration", field |-> "", text |-> <<>>, parent |-> 300, kids |-> <<302>>],                     \* 301 cp_Sc
  [kind |-> "function_declarator", field |-> "declarator", text |-> <<>>, parent |-> 301, kids |-> <<303, 304>>], \* 302
  [kind |-> "identifier", field |-> "declarator", text |-> <<"S">>, parent |-> 302, kids |-> <<>>],            \* 303
  [kind |-> "parameter_list", field |-> "parameters", text |-> <<"(","a",")">>, parent |-> 302, kids |-> <<>>], \* 304
  [kind |-> "function_definition", field |-> "", text |-> <<>>, parent |-> 278, kids |-> <<306, 307, 310>>],   \* 305 cp_g
  [kind |-> "primitive_type", field |-> "type", text |-> <<"T">>, parent |-> 305, kids |-> <<>>],              \* 306
  [kind |-> "function_declarator", field |-> "declarator", text |-> <<>>, parent |-> 305, kids |-> <<308, 309>>], \* 307
  [kind |-> "identifier", field |-> "declarator", text |-> <<"g">>, parent |-> 307, kids |-> <<>>],            \* 308
  [kind |-> "parameter_list", field |-> "parameters", text |-> <<"(","a",")">>, parent |-> 307, kids |-> <<>>], \* 309
  [kind |-> "compound_statement", field |-> "body", text |-> <<"{","}">>, parent |-> 305, kids |-> <<>>],      \* 310
  [kind |-> "function_definition", field |-> "", text |-> <<>>, parent |-> 278, kids |-> <<312, 313, 318>>],   \* 311 cp_q
  [kind |-> "primitive_type", field |-> "type", text |-> <<"T">>, parent |-> 311, kids |-> <<>>],              \* 312
  [kind |-> "function_declarator", field |-> "declarator", text |-> <<>>, parent |-> 311, kids |-> <<314, 317>>], \* 313
  [kind |-> "qualified_identifier", field |-> "declarator", text |-> <<>>, parent |-> 313, kids |-> <<315, 316>>], \* 314
  [kind |-> "namespace_identifier", field |-> "scope", text |-> <<"K">>, parent |-> 314, kids |-> <<>>],       \* 315
  [kind |-> "identifier", field |-> "name", text |-> <<"m">>, parent |-> 314, kids |-> <<>>],                  \* 316
  [kind |-> "parameter_list", field |-> "parameters", text |-> <<"(","a",")">>, parent |-> 313, kids |-> <<>>], \* 317
  [kind |-> "compound_statement", field |-> "body", text |-> <<"{","}">>, parent |-> 311, kids |-> <<>>],      \* 318
  [kind |-> "program", field |-> "", text |-> <<>>, parent |-> 0, kids |-> <<320, 323, 327, 351>>],            \* 319
  [kind |-> "assignment", field |-> "", text |-> <<>>, parent |-> 319, kids |-> <<321, 322>>],                 \* 320 rb_v
  [kind |-> "identifier", field |-> "left", text |-> <<"v">>, parent |-> 320, kids |-> <<>>],                  \* 321
  [kind |-> "integer", field |-> "right", text |-> <<"1">>, parent |-> 320, kids |-> <<>>],                    \* 322
  [kind |-> "method", field |-> "", text |-> <<>>, parent |-> 319, kids |-> <<324, 325, 326>>],                \* 323 rb_t
  [kind |-> "def", field |-> "", text |-> <<"d","e","f">>, parent |-> 323, kids |-> <<>>],                     \* 324
  [kind |-> "identifier", field |-> "name", text |-> <<"t">>, parent |-> 323, kids |-> <<>>],                  \* 325
  [kind |-> "end", field |-> "", text |-> <<"e","n","d">>, parent |-> 323, kids |-> <<>>],                     \* 326
  [kind |-> "module", field |-> "", text |-> <<>>, parent |-> 319, kids |-> <<328, 329, 330, 350>>],           \* 327 rb_A
  [kind |-> "module", field |-> "", text |-> <<"m","o","d","u","l","e">>, parent |-> 327, kids |-> <<>>],      \* 328
  [kind |-> "constant", field |-> "name", text |-> <<"A">>, parent |-> 327, kids |-> <<>>],                    \* 329
  [kind |-> "body_statement", field |-> "body", text |-> <<>>, parent |-> 327, kids |-> <<331>>],              \* 330
  [kind |-> "class", field |-> "", text |-> <<>>, parent |-> 330, kids |-> <<332, 333, 334, 349>>],            \* 331 rb_C
  [kind |-> "class", field |-> "", text |-> <<"c","l","a","s","s">>, parent |-> 331, kids |-> <<>>],           \* 332
  [kind |-> "constant", field |-> "name", text |-> <<"C">>, parent |-> 331, kids |-> <<>>],                    \* 333
  [kind |-> "body_statement", field |-> "body", text |-> <<>>, parent |-> 331, kids |-> <<335, 340, 343, 344, 463, 464, 469, 470, 473, 478, 482>>], \* 334
  [kind |-> "method", field |-> "", text |-> <<>>, parent |-> 334, kids |-> <<336, 337, 338, 339>>],           \* 335 rb_i
  [kind |-> "def", field |-> "", text |-> <<"d","e","f">>, parent |-> 335, kids |-> <<>>],                     \* 336
  [kind |-> "identifier", field |-> "name", text |-> <<"i">>, parent |-> 335, kids |-> <<>>],                  \* 337
  [kind |-> "method_parameters", field |-> "parameters", text |-> <<"(","a",")">>, parent |-> 335, kids |-> <<>>], \* 338
  [kind |-> "end", field |-> "", text |-> <<"e","n","d">>, parent |-> 335, kids |-> <<>>],                     \* 339
  [kind |-> "assignment", field |-> "", text |-> <<>>, parent |-> 334, kids |-> <<341, 342>>],                 \* 340 rb_X
  [kind |-> "constant", field |-> "left", text |-> <<"X">>, parent |-> 340, kids |-> <<>>],                    \* 341
  [kind |-> "integer", field |-> "right", text |-> <<"1">>, parent |-> 340, kids |-> <<>>],                    \* 342
  [kind |-> "identifier", field |-> "", text |-> <<"p","r","i","v","a","t","e">>, parent |-> 334, kids |-> <<>>], \* 343
  [kind |-> "method", field |-> "", text |-> <<>>, parent |-> 334, kids |-> <<345, 346, 347, 348>>],           \* 344 rb_z
  [kind |-> "def", field |-> "", text |-> <<"d","e","f">>, parent |-> 344, kids |-> <<>>],                     \* 345
  [kind |-> "identifier", field |-> "name", text |-> <<"z">>, parent |-> 344, kids |-> <<>>],                  \* 346
  [kind |-> "method_parameters", field |-> "parameters", text |-> <<"(","a",")">>, parent |-> 344, kids |-> <<>>], \* 347
  [kind |-> "end", field |-> "", text |-> <<"e","n","d">>, parent |-> 344, kids |-> <<>>],                     \* 348
  [kind |-> "end", field |-> "", text |-> <<"e","n","d">>, parent |-> 331, kids |-> <<>>],                     \* 349
  [kind |-> "end", field |-> "", text |-> <<"e","n","d">>, parent |-> 327, kids |-> <<>>],                     \* 350
  [kind |-> "module", field |-> "", text |-> <<>>, parent |-> 319, kids |-> <<352, 353, 354, 360>>],           \* 351 rb_B
  [kind |-> "module", field |-> "", text |-> <<"m","o","d","u","l","e">>, parent |-> 351, kids |-> <<>>],      \* 352
  [kind |-> "constant", field |-> "name", text |-> <<"B">>, parent |-> 351, kids |-> <<>>],                    \* 353
  [kind |-> "body_statement", field |-> "body", text |-> <<>>, parent |-> 351, kids |-> <<355>>],              \* 354
  [kind |-> "method", field |-> "", text |-> <<>>, parent |-> 354, kids |-> <<356, 357, 358, 359>>],           \* 355 rb_m
  [kind |-> "def", field |-> "", text |-> <<"d","e","f">>, parent |-> 355, kids |-> <<>>],                     \* 356
  [kind |-> "identifier", field |-> "name", text |-> <<"m">>, parent |-> 355, kids |-> <<>>],                  \* 357
  [kind |-> "method_parameters", field |-> "parameters", text |-> <<"(","a",")">>, parent |-> 355, kids |-> <<>>], \* 358
  [kind |-> "end", field |-> "", text |-> <<"e","n","d">>, parent |-> 355, kids |-> <<>>],                     \* 359
  [kind |-> "end", field |-> "", text |-> <<"e","n","d">>, parent |-> 351, kids |-> <<>>],                     \* 360
  [kind |-> "source", field |-> "", text |-> <<>>, parent |-> 0, kids |-> <<362, 383>>],                       \* 361
  [kind |-> "call", field |-> "", text |-> <<>>, parent |-> 361, kids |-> <<363, 364, 366>>],                  \* 362
  [kind |-> "identifier", field |-> "target", text |-> <<"d","e","f","m","o","d","u","l","e">>, parent |-> 362, kids |-> <<>>], \* 363
  [kind |-> "arguments", field |-> "", text |-> <<>>, parent |-> 362, kids |-> <<365>>],                       \* 364
  [kind |-> "alias", field |-> "", text |-> <<"M">>, parent |-> 364, kids |-> <<>>],                           \* 365
  [kind |-> "do_block", field |-> "", text |-> <<>>, parent |-> 362, kids |-> <<367, 368, 375, 382>>],         \* 366
  [kind |-> "do", field |-> "", text |-> <<"d","o">>, parent |-> 366, kids |-> <<>>],                          \* 367
  [kind |-> "call", field |-> "", text |-> <<>>, parent |-> 366, kids |-> <<369, 370, 374>>],                  \* 368
  [kind |-> "identifier", field |-> "target", text |-> <<"d","e","f">>, parent |-> 368, kids |-> <<>>],        \* 369
  [kind |-> "arguments", field |-> "", text |-> <<>>, parent |-> 368, kids |-> <<371>>],                       \* 370
  [kind |-> "call", field |-> "", text |-> <<>>, parent |-> 370, kids |-> <<372, 373>>],                       \* 371
  [kind |-> "identifier", field |-> "target", text |-> <<"f">>, parent |-> 371, kids |-> <<>>],                \* 372 ex_f
  [kind |-> "arguments", field |-> "", text |-> <<"(","a",")">>, parent |-> 371, kids |-> <<>>],               \* 373
  [kind |-> "do_block", field |-> "", text |-> <<"d","o"," ","e","n","d">>, parent |-> 368, kids |-> <<>>],    \* 374
  [kind |-> "call", field |-> "", text |-> <<>>, parent |-> 366, kids |-> <<376, 377, 381>>],                  \* 375
  [kind |-> "identifier", field |-> "target", text |-> <<"d","e","f">>, parent |-> 375, kids |-> <<>>],        \* 376
  [kind |-> "arguments", field |-> "", text |-> <<>>, parent |-> 375, kids |-> <<378>>],                       \* 377
  [kind |-> "call", field |-> "", text |-> <<>>, parent |-> 377, kids |-> <<379, 380>>],                       \* 378
  [kind |-> "identifier", field |-> "target", text |-> <<"h">>, parent |-> 378, kids |-> <<>>],                \* 379 ex_h
  [kind |-> "arguments", field |-> "", text |-> <<"(","a",")">>, parent |-> 378, kids |-> <<>>],               \* 380
  [kind |-> "do_block", field |-> "", text |-> <<"d","o"," ","e","n","d">>, parent |-> 375, kids |-> <<>>],    \* 381
  [kind |-> "end", field |-> "", text |-> <<"e","n","d">>, parent |-> 366, kids |-> <<>>],                     \* 382
  [kind |-> "call", field |-> "", text |-> <<>>, parent |-> 361, kids |-> <<384, 385, 389>>],                  \* 383
  [kind |-> "identifier", field |-> "target", text |-> <<"d","e","f">>, parent |-> 383, kids |-> <<>>],        \* 384
  [kind |-> "arguments", field |-> "", text |-> <<>>, parent |-> 383, kids |-> <<386>>],                       \* 385
  [kind |-> "call", field |-> "", text |-> <<>>, parent |-> 385, kids |-> <<387, 388>>],                       \* 386
  [kind |-> "identifier", field |-> "target", text |-> <<"t">>, parent |-> 386, kids |-> <<>>],                \* 387 ex_t
  [kind |-> "arguments", field |-> "", text |-> <<"(","a",")">>, parent |-> 386, kids |-> <<>>],               \* 388
  [kind |-> "do_block", field |-> "", text |-> <<"d","o"," ","e","n","d">>, parent |-> 383, kids |-> <<>>],    \* 389
  [kind |-> "compilation_unit", field |-> "", text |-> <<>>, parent |-> 0, kids |-> <<391, 394, 404>>],        \* 390
  [kind |-> "val_definition", field |-> "", text |-> <<>>, parent |-> 390, kids |-> <<392, 393>>],             \* 391 sc_v
  [kind |-> "identifier", field |-> "pattern", text |-> <<"v">>, parent |-> 391, kids |-> <<>>],               \* 392
  [kind |-> "type_identifier", field |-> "type", text |-> <<"T">>, parent |-> 391, kids |-> <<>>],             \* 393
  [kind |-> "class_definition", field |-> "", text |-> <<>>, parent |-> 390, kids |-> <<395, 396>>],           \* 394 sc_K
  [kind |-> "identifier", field |-> "name", text |-> <<"K">>, parent |-> 394, kids |-> <<>>],                  \* 395
  [kind |-> "template_body", field |-> "body", text |-> <<>>, parent |-> 394, kids |-> <<397, 401>>],          \* 396
  [kind |-> "function_definition", field |-> "", text |-> <<>>, parent |-> 396, kids |-> <<398, 399, 400>>],   \* 397 sc_m
  [kind |-> "identifier", field |-> "name", text |-> <<"m">>, parent |-> 397, kids |-> <<>>],                  \* 398
  [kind |-> "parameters", field |-> "parameters", text |-> <<"(","a",")">>, parent |-> 397, kids |-> <<>>],    \* 399
  [kind |-> "type_identifier", field |-> "return_type", text |-> <<"T">>, parent |-> 397, kids |-> <<>>],      \* 400
  [kind |-> "val_definition", field |-> "", text |-> <<>>, parent |-> 396, kids |-> <<402, 403>>],             \* 401 sc_p
  [kind |-> "identifier", field |-> "pattern", text |-> <<"p">>, parent |-> 401, kids |-> <<>>],               \* 402
  [kind |-> "type_identifier", field |-> "type", text |-> <<"T">>, parent |-> 401, kids |-> <<>>],             \* 403
  [kind |-> "enum_definition", field |-> "", text |-> <<>>, parent |-> 390, kids |-> <<405, 406>>],            \* 404
  [kind |-> "identifier", field |-> "name", text |-> <<"K">>, parent |-> 404, kids |-> <<>>],                  \* 405
  [kind |-> "enum_body", field |-> "body", text |-> <<>>, parent |-> 404, kids |-> <<407>>],                   \* 406
  [kind |-> "enum_case_definitions", field |-> "", text |-> <<>>, parent |-> 406, kids |-> <<408, 410>>],      \* 407
  [kind |-> "simple_enum_case", field |-> "", text |-> <<>>, parent |-> 407, kids |-> <<409>>],                \* 408 sc_X
  [kind |-> "identifier", field |-> "name", text |-> <<"X">>, parent |-> 408, kids |-> <<>>],                  \* 409
  [kind |-> "simple_enum_case", field |-> "", text |-> <<>>, parent |-> 407, kids |-> <<411>>],                \* 410 sc_Y
  [kind |-> "identifier", field |-> "name", text |-> <<"Y">>, parent |-> 410, kids |-> <<>>],                  \* 411
  [kind |-> "program", field |-> "", text |-> <<>>, parent |-> 0, kids |-> <<413, 417, 423, 427, 431, 434, 487>>], \* 412
  [kind |-> "function_declaration", field |-> "", text |-> <<>>, parent |-> 412, kids |-> <<414, 415, 416>>],  \* 413 js_g
  [kind |-> "identifier", field |-> "name", text |-> <<"g">>, parent |-> 413, kids |-> <<>>],                  \* 414
  [kind |-> "formal_parameters", field |-> "parameters", text |-> <<"(","a",",","\n","b",")">>, parent |-> 413, kids |-> <<>>], \* 415
  [kind |-> "statement_block", field |-> "body", text |-> <<"{","}">>, parent |-> 413, kids |-> <<>>],         \* 416
  [kind |-> "expression_statement", field |-> "", text |-> <<>>, parent |-> 412, kids |-> <<418>>],            \* 417
  [kind |-> "assignment_expression", field |-> "", text |-> <<>>, parent |-> 417, kids |-> <<419, 420>>],      \* 418 js_as
  [kind |-> "identifier", field |-> "left", text |-> <<"h">>, parent |-> 418, kids |-> <<>>],                  \* 419
  [kind |-> "arrow_function", field |-> "right", text |-> <<>>, parent |-> 418, kids |-> <<421, 422>>],        \* 420
  [kind |-> "formal_parameters", field |-> "parameters", text |-> <<"(","a",")">>, parent |-> 420, kids |-> <<>>], \* 421
  [kind |-> "statement_block", field |-> "body", text |-> <<"{","}">>, parent |-> 420, kids |-> <<>>],         \* 422
  [kind |-> "lexical_declaration", field |-> "", text |-> <<>>, parent |-> 412, kids |-> <<424>>],             \* 423
  [kind |-> "variable_declarator", field |-> "", text |-> <<>>, parent |-> 423, kids |-> <<425, 426>>],        \* 424 js_ve
  [kind |-> "identifier", field |-> "name", text |-> <<>>, parent |-> 424, kids |-> <<>>],                     \* 425
  [kind |-> "number", field |-> "value", text |-> <<"1">>, parent |-> 424, kids |-> <<>>],                     \* 426
  [kind |-> "function_declaration", field |-> "", text |-> <<>>, parent |-> 412, kids |-> <<428, 429, 430>>],  \* 427 js_fe
  [kind |-> "identifier", field |-> "name", text |-> <<>>, parent |-> 427, kids |-> <<>>],                     \* 428
  [kind |-> "formal_parameters", field |-> "parameters", text |-> <<"(",")">>, parent |-> 427, kids |-> <<>>], \* 429
  [kind |-> "statement_block", field |-> "body", text |-> <<"{","}">>, parent |-> 427, kids |-> <<>>],         \* 430
  [kind |-> "class_declaration", field |-> "", text |-> <<>>, parent |-> 412, kids |-> <<432, 433>>],          \* 431 js_Ce
  [kind |-> "identifier", field |-> "name", text |-> <<>>, parent |-> 431, kids |-> <<>>],                     \* 432
  [kind |-> "class_body", field |-> "body", text |-> <<"{","}">>, parent |-> 431, kids |-> <<>>],              \* 433
  [kind |-> "class_declaration", field |-> "", text |-> <<>>, parent |-> 412, kids |-> <<435, 436>>],          \* 434 js_K
  [kind |-> "identifier", field |-> "name", text |-> <<"K">>, parent |-> 434, kids |-> <<>>],                  \* 435
  [kind |-> "class_body", field |-> "body", text |-> <<>>, parent |-> 434, kids |-> <<437, 441>>],             \* 436
  [kind |-> "method_definition", field |-> "", text |-> <<>>, parent |-> 436, kids |-> <<438, 439, 440>>],     \* 437 js_me
  [kind |-> "property_identifier", field |-> "name", text |-> <<>>, parent |-> 437, kids |-> <<>>],            \* 438
  [kind |-> "formal_parameters", field |-> "parameters", text |-> <<"(",")">>, parent |-> 437, kids |-> <<>>], \* 439
  [kind |-> "statement_block", field |-> "body", text |-> <<"{","}">>, parent |-> 437, kids |-> <<>>],         \* 440
  [kind |-> "field_definition", field |-> "", text |-> <<>>, parent |-> 436, kids |-> <<442>>],                \* 441 js_pe
  [kind |-> "property_identifier", field |-> "name", text |-> <<>>, parent |-> 441, kids |-> <<>>],            \* 442
  [kind |-> "function_declaration", field |-> "", text |-> <<>>, parent |-> 128, kids |-> <<444, 445, 446, 447, 448>>], \* 443 zg_h
  [kind |-> "fn", field |-> "", text |-> <<"f","n">>, parent |-> 443, kids |-> <<>>],                          \* 444
  [kind |-> "identifier", field |-> "name", text |-> <<"p","u","b","l","i","s","h">>, parent |-> 443, kids |-> <<>>], \* 445
  [kind |-> "parameters", field |-> "", text |-> <<"(",")">>, parent |-> 443, kids |-> <<>>],                  \* 446
  [kind |-> "builtin_type", field |-> "type", text |-> <<"T">>, parent |-> 443, kids |-> <<>>],                \* 447
  [kind |-> "block", field |-> "body", text |-> <<"{","}">>, parent |-> 443, kids |-> <<>>],                   \* 448
  [kind |-> "function_declaration", field |-> "", text |-> <<>>, parent |-> 128, kids |-> <<450, 451, 452, 453, 454>>], \* 449 zg_k
  [kind |-> "fn", field |-> "", text |-> <<"f","n">>, parent |-> 449, kids |-> <<>>],                          \* 450
  [kind |-> "identifier", field |-> "name", text |-> <<"k">>, parent |-> 449, kids |-> <<>>],                  \* 451
  [kind |-> "parameters", field |-> "", text |-> <<"(",")">>, parent |-> 449, kids |-> <<>>],                  \* 452
  [kind |-> "builtin_type", field |-> "type", text |-> <<"T">>, parent |-> 449, kids |-> <<>>],                \* 453
  [kind |-> "block", field |-> "body", text |-> <<"{","}">>, parent |-> 449, kids |-> <<>>],                   \* 454
  [kind |-> "variable_declaration", field |-> "", text |-> <<>>, parent |-> 128, kids |-> <<456, 457, 458, 459>>], \* 455
  [kind |-> "pub", field |-> "", text |-> <<"p","u","b">>, parent |-> 455, kids |-> <<>>],                     \* 456
  [kind |-> "const", field |-> "", text |-> <<"c","o","n","s","t">>, parent |-> 455, kids |-> <<>>],           \* 457
  [kind |-> "identifier", field |-> "", text |-> <<>>, parent |-> 455, kids |-> <<>>],                         \* 458
  [kind |-> "union_declaration", field |-> "", text |-> <<>>, parent |-> 455, kids |-> <<460>>],               \* 459
  [kind |-> "container_field", field |-> "", text |-> <<>>, parent |-> 459, kids |-> <<461, 462>>],            \* 460
  [kind |-> "identifier", field |-> "name", text |-> <<"y">>, parent |-> 460, kids |-> <<>>],                  \* 461 zg_y
  [kind |-> "builtin_type", field |-> "type", text |-> <<"T">>, parent |-> 460, kids |-> <<>>],                \* 462
  [kind |-> "identifier", field |-> "", text |-> <<"p","u","b","l","i","c">>, parent |-> 334, kids |-> <<>>],  \* 463
  [kind |-> "method", field |-> "", text |-> <<>>, parent |-> 334, kids |-> <<465, 466, 467, 468>>],           \* 464 rb_p
  [kind |-> "def", field |-> "", text |-> <<"d","e","f">>, parent |-> 464, kids |-> <<>>],                     \* 465
  [kind |-> "identifier", field |-> "name", text |-> <<"p">>, parent |-> 464, kids |-> <<>>],                  \* 466
  [kind |-> "method_parameters", field |-> "parameters", text |-> <<"(","a",")">>, parent |-> 464, kids |-> <<>>], \* 467
  [kind |-> "end", field |-> "", text |-> <<"e","n","d">>, parent |-> 464, kids |-> <<>>],                     \* 468
  [kind |-> "identifier", field |-> "", text |-> <<"p","r","i","v","a","t","e">>, parent |-> 334, kids |-> <<>>], \* 469
  [kind |-> "assignment", field |-> "", text |-> <<>>, parent |-> 334, kids |-> <<471, 472>>],                 \* 470
  [kind |-> "constant", field |-> "left", text |-> <<"Y">>, parent |-> 470, kids |-> <<>>],                    \* 471
  [kind |-> "integer", field |-> "right", text |-> <<"1">>, parent |-> 470, kids |-> <<>>],                    \* 472
  [kind |-> "method", field |-> "", text |-> <<>>, parent |-> 334, kids |-> <<474, 475, 476, 477>>],           \* 473 rb_r
  [kind |-> "def", field |-> "", text |-> <<"d","e","f">>, parent |-> 473, kids |-> <<>>],                     \* 474
  [kind |-> "identifier", field |-> "name", text |-> <<"r">>, parent |-> 473, kids |-> <<>>],                  \* 475
  [kind |-> "method_parameters", field |-> "parameters", text |-> <<"(","a",")">>, parent |-> 473, kids |-> <<>>], \* 476
  [kind |-> "end", field |-> "", text |-> <<"e","n","d">>, parent |-> 473, kids |-> <<>>],                     \* 477
  [kind |-> "class", field |-> "", text |-> <<>>, parent |-> 334, kids |-> <<479, 480, 481>>],                 \* 478 rb_D
  [kind |-> "class", field |-> "", text |-> <<"c","l","a","s","s">>, parent |-> 478, kids |-> <<>>],           \* 479
  [kind |-> "constant", field |-> "name", text |-> <<"D">>, parent |-> 478, kids |-> <<>>],                    \* 480
  [kind |-> "end", field |-> "", text |-> <<"e","n","d">>, parent |-> 478, kids |-> <<>>],                     \* 481
  [kind |-> "method", field |-> "", text |-> <<>>, parent |-> 334, kids |-> <<483, 484, 485, 486>>],           \* 482 rb_q
  [kind |-> "def", field |-> "", text |-> <<"d","e","f">>, parent |-> 482, kids |-> <<>>],                     \* 483
  [kind |-> "identifier", field |-> "name", text |-> <<"q">>, parent |-> 482, kids |-> <<>>],                  \* 484
  [kind |-> "method_parameters", field |-> "parameters", text |-> <<"(","a",")">>, parent |-> 482, kids |-> <<>>], \* 485
  [kind |-> "end", field |-> "", text |-> <<"e","n","d">>, parent |-> 482, kids |-> <<>>],                     \* 486
  [kind |-> "lexical_declaration", field |-> "", text |-> <<>>, parent |-> 412, kids |-> <<488>>],             \* 487
  [kind |-> "variable_declarator", field |-> "", text |-> <<>>, parent |-> 487, kids |-> <<489>>],             \* 488 js_bad
  [kind |-> "identifier", field |-> "name", text |-> <<"w">>, parent |-> 488, kids |-> <<>>]                   \* 489
  >>

NodeIds == 1..Len(SourceNodes)

RECURSIVE RootOf(_)
\* the root of the sample tree a node of the forest belongs to
RootOf(n) == IF SourceNodes[n].parent = 0 THEN n ELSE RootOf(SourceNodes[n].parent)

\* Node::kind
Kind(n) == tree[n].kind

\* Node::parent
Parent(n) == tree[n].parent

\* Node::children
Children(n) == tree[n].kids

RECURSIVE JoinTexts(_)
\* the source slice a sequence of sibling nodes spans: their tokens, separated by one space
JoinTexts(ks) ==
  IF ks = <<>> THEN <<>>
  ELSE (IF Children(Head(ks)) = <<>> THEN tree[Head(ks)].text
        ELSE JoinTexts(Children(Head(ks))))
         \o (IF Tail(ks) = <<>> THEN <<>> ELSE <<" ">> \o JoinTexts(Tail(ks)))

\* Node::utf8_text
Utf8Text(n) == JoinTexts(<<n>>)

\* the first node of a sequence that has the kind, 0 when none has
FirstOfKind(ks, kind) ==
  IF \E i \in 1..Len(ks) : Kind(ks[i]) = kind
  THEN ks[CHOOSE i \in 1..Len(ks) :
            Kind(ks[i]) = kind /\ \A j \in 1..(i - 1) : Kind(ks[j]) # kind]
  ELSE 0

\* the first node of a sequence that its parent holds under the field name, 0 when none is
FirstWithField(ks, f) ==
  IF \E i \in 1..Len(ks) : tree[ks[i]].field = f
  THEN ks[CHOOSE i \in 1..Len(ks) :
            tree[ks[i]].field = f /\ \A j \in 1..(i - 1) : tree[ks[j]].field # f]
  ELSE 0

\* Option::or_else on an Option<Node>
OrElse(a, b) == IF a # 0 THEN a ELSE b

\* Node::child_by_field_name; on a missing node (Option::and_then) the result is missing
ChildByFieldName(n, f) ==
  IF n = 0 THEN 0 ELSE FirstWithField(Children(n), f)

\* the position of a node among its siblings
IndexIn(ks, n) == CHOOSE j \in 1..Len(ks) : ks[j] = n

\* the element before position i, 0 when i is the first
Before(ks, i) == IF i = 1 THEN 0 ELSE ks[i - 1]

\* Node::prev_sibling
PrevSibling(n) ==
  IF Parent(n) = 0 THEN 0
  ELSE Before(Children(Parent(n)), IndexIn(Children(Parent(n)), n))

RECURSIVE FirstInPreorder(_, _)
\* TreeCursor::goto_descendant order over the pending nodes: the first node of the kind
FirstInPreorder(pending, kind) ==
  IF pending = <<>> THEN 0
  ELSE IF Kind(Head(pending)) = kind THEN Head(pending)
  ELSE FirstInPreorder(Children(Head(pending)) \o Tail(pending), kind)

\* Option<Node>::map(utf8_text).unwrap_or(default)
TextOr(n, default) == IF n = 0 THEN default ELSE Utf8Text(n)

\* Option<Node>::map(utf8_text).unwrap_or("")
TextOrEmpty(n) == TextOr(n, <<>>)

\* Option<Node>::map(get_node_text): None is <<>>, Some(text) is <<text>>
OptText(n) == IF n = 0 THEN None ELSE Some(Utf8Text(n))

(***************************************************************************)
(* Grammar registry                                                        *)
(***************************************************************************)
\* every tag has a grammar
GetTsLanguageAny(lang) == TRUE

\* get_ts_language: Some (TRUE) for a registered tag
GetTsLanguage(lang) ==
  lang \in {"rust", "python", "php", "java", "javascript", "typescript", "go", "c",
            "cpp", "lua", "ruby", "zig", "scala", "swift", "elixir", "csharp"}

\* a pattern-script registry that lacks the csharp entry
GetDefinitionsQueryNoCsharp(lang) ==
  IF ~GetTsLanguage(lang) THEN FALSE
  ELSE lang \in {"c", "cpp", "go", "java", "javascript", "lua", "php", "python",
                 "rust", "zig", "typescript", "ruby", "scala", "swift", "elixir"}

\* get_definitions_query: Ok (TRUE) when both the grammar and the pattern script exist
GetDefinitionsQuery(lang) ==
  IF ~GetTsLanguage(lang) THEN FALSE
  ELSE lang \in {"c", "cpp", "go", "java", "javascript", "lua", "php", "python",
                 "rust", "zig", "typescript", "ruby", "scala", "swift", "elixir", "csharp"}

(***************************************************************************)
(* Tree helpers                                                            *)
(***************************************************************************)
RECURSIVE ClosestNamedAncestor(_)
ClosestNamedAncestor(p) ==
  IF p = 0 THEN 0
  ELSE IF ChildByFieldName(p, "name") # 0 THEN ChildByFieldName(p, "name")
  ELSE ClosestNamedAncestor(Parent(p))

\* get_closest_ancestor_name
GetClosestAncestorName(node) == TextOrEmpty(ClosestNamedAncestor(Parent(node)))

RECURSIVE FirstOfTypes(_, _)
FirstOfTypes(p, types) ==
  IF p = 0 THEN 0
  ELSE IF Kind(p) \in types THEN p
  ELSE FirstOfTypes(Parent(p), types)

\* find_ancestor_by_type
FindAncestorByType(node, parent_type) == FirstOfTypes(Parent(node), {parent_type})

\* find_first_ancestor_by_types
FindFirstAncestorByTypes(node, possible_parent_types) ==
  FirstOfTypes(Parent(node), possible_parent_types)

\* find_descendant_by_type: the first node of that kind in pre-order, the node itself included
FindDescendantByType(node, child_type) ==
  FirstInPreorder(<<node>>, child_type)

\* find_child_by_type; on a missing node (Option::and_then) the result is missing
FindChildByType(node, child_type) ==
  IF node = 0 THEN 0 ELSE FirstOfKind(Children(node), child_type)

RECURSIVE RubyScanSiblings(_)
RubyScanSiblings(s) ==
  IF s = 0 THEN FALSE
  ELSE IF Kind(s) = "identifier" /\ Utf8Text(s) = Str_private THEN TRUE
  ELSE IF Kind(s) = "identifier" /\ Utf8Text(s) \in {Str_public, Str_protected} THEN FALSE
  ELSE IF Kind(s) # "identifier" /\ Kind(s) \in {"class", "module"} THEN FALSE
  ELSE RubyScanSiblings(PrevSibling(s))

\* only the nearest previous sibling is looked at
RubyMethodIsPrivateNearest(node) ==
  /\ PrevSibling(node) # 0
  /\ Kind(PrevSibling(node)) = "identifier"
  /\ Utf8Text(PrevSibling(node)) = Str_private

\* ruby_method_is_private
RubyMethodIsPrivate(node) == RubyScanSiblings(PrevSibling(node))

\* zig_find_parent_variable_declaration_name (None is <<>>, Some(text) is <<text>>)
ZigFindParentVariableDeclarationName(node) ==
  OptText(FindChildByType(FindAncestorByType(node, "variable_declaration"), "identifier"))

\* the text of a node that exists starts with the prefix
NodeTextStartsWith(n, prefix) == n # 0 /\ StartsWith(Utf8Text(n), prefix)

\* the test of zig_is_declaration_public, inverted
ZigIsDeclarationPrivate(node, declaration_type) ==
  ~NodeTextStartsWith(FindAncestorByType(node, declaration_type), Str_pub)

\* zig_is_declaration_public
ZigIsDeclarationPublic(node, declaration_type) ==
  NodeTextStartsWith(FindAncestorByType(node, declaration_type), Str_pub)

\* zig_is_variable_declaration_public
ZigIsVariableDeclarationPublic(node) == ZigIsDeclarationPublic(node, "variable_declaration")

\* zig_is_function_declaration_public
ZigIsFunctionDeclarationPublic(node) == ZigIsDeclarationPublic(node, "function_declaration")

\* zig_find_type_in_parent
ZigFindTypeInParent(node) == OptText(ChildByFieldName(Parent(node), "type"))

\* csharp_is_primary_constructor
CsharpIsPrimaryConstructor(node) ==
  /\ Kind(node) = "parameter_list"
  /\ Parent(node) # 0
  /\ Kind(Parent(node)) \in {"class_declaration", "record_declaration"}

\* csharp_find_parent_type_node
CsharpFindParentTypeNode(node) ==
  FindFirstAncestorByTypes(node, {"class_declaration", "record_declaration"})

RECURSIVE ExScanAncestors(_)
ExScanAncestors(p) ==
  IF p = 0 THEN None
  ELSE IF /\ Kind(p) = "call"
          /\ StartsWith(Utf8Text(p), Str_defmodule)
          /\ FindChildByType(p, "arguments") # 0
       THEN OptText(FindChildByType(p, "arguments"))
  ELSE ExScanAncestors(Parent(p))

\* ex_find_parent_module_declaration_name
ExFindParentModuleDeclarationName(node) == ExScanAncestors(Parent(node))

RECURSIVE RubyPathParts(_)
\* the names of the module/class nodes from the node itself up to the root, innermost first
RubyPathParts(current) ==
  IF current = 0 THEN <<>>
  ELSE (IF Kind(current) \in {"module", "class"} /\ ChildByFieldName(current, "name") # 0
        THEN <<Utf8Text(ChildByFieldName(current, "name"))>>
        ELSE <<>>) \o RubyPathParts(Parent(current))

\* None for an empty path, else the innermost part alone
JoinPathInnermost(path_parts) == IF path_parts = <<>> THEN None ELSE Some(path_parts[1])

\* None for an empty path, else the parts outermost first, joined by "::"
JoinPath(path_parts) ==
  IF path_parts = <<>> THEN None ELSE Some(JoinWith(Reverse(path_parts), Str_colons))

\* ruby_find_parent_module_declaration_name
RubyFindParentModuleDeclarationName(node) == JoinPath(RubyPathParts(node))

\* Option::unwrap_or_default / unwrap_or on an Option<String>
UnwrapOr(opt, default) == IF opt = None THEN default ELSE opt[1]

\* get_node_type
GetNodeType(node) ==
  TextOr(FindDescendantByType(node, "predefined_type"),
         TextOrEmpty(ChildByFieldName(node, "type")))

\* is_first_letter_uppercase
IsFirstLetterUppercase(name) == name # <<>> /\ name[1] \in UpperChars

\* find_descendant_by_type(node, "visibility_modifier") text, "" when absent
VisibilityModifier(node) == TextOrEmpty(FindDescendantByType(node, "visibility_modifier"))

\* the Java test: a `modifiers` descendant whose text contains "private"
JavaModifiersPrivate(node) ==
  Contains(TextOrEmpty(FindDescendantByType(node, "modifiers")), Str_private)

(***************************************************************************)
(* Records of the symbol model                                             *)
(***************************************************************************)
\* struct Func
Func(name, params, return_type, accessibility_modifier) ==
  [name |-> name, params |-> params, return_type |-> return_type,
   accessibility_modifier |-> accessibility_modifier]

\* struct Variable
Variable(name, value_type) == [name |-> name, value_type |-> value_type]

\* struct Class
Class(type_name, name) ==
  [type_name |-> type_name, name |-> name, methods |-> <<>>, properties |-> <<>>,
   visibility_modifier |-> None]

\* struct Enum, struct Union
Items(name) == [name |-> name, items |-> <<>>]

\* enum Definition
Definition(tag, val) == [tag |-> tag, val |-> val]

\* an empty String maps to None, any other to Some
NonEmpty(s) == IF s = <<>> THEN None ELSE Some(s)

\* BTreeMap::new
EmptyMap == <<>>

\* BTreeMap::entry(key).or_insert_with(value)
OrInsert(map, key, value) ==
  IF key \in DOMAIN map THEN map
  ELSE [k \in (DOMAIN map) \cup {key} |-> IF k = key THEN value ELSE map[k]]

\* the closure ensure_class_def
EnsureClassDef(lang, name, map) ==
  OrInsert(map, name, Class(IF lang = "elixir" THEN Str_module ELSE Str_class, name))

\* the closure ensure_module_def
EnsureModuleDef(name, map) == OrInsert(map, name, Class(Str_module, name))

\* the closure ensure_enum_def
EnsureEnumDef(name, map) == OrInsert(map, name, Items(name))

\* the closure ensure_union_def
EnsureUnionDef(name, map) == OrInsert(map, name, Items(name))

\* the greatest key of a non-empty key set
GreatestKey(keys) == CHOOSE k \in keys : \A o \in keys : o = k \/ StrLess(o, k)

\* the least key of a non-empty key set
LeastKey(keys) == CHOOSE k \in keys : \A o \in keys : o = k \/ StrLess(k, o)

RECURSIVE SortedKeys(_)
\* BTreeMap iteration order: ascending keys
SortedKeys(keys) ==
  IF keys = {} THEN <<>>
  ELSE <<LeastKey(keys)>> \o SortedKeys(keys \ {LeastKey(keys)})

(***************************************************************************)
(* Symbol builder: extract_definitions, one capture at a time               *)
(***************************************************************************)
\* the state the capture loop works on
Fresh ==
  [captured_nodes |-> EmptyMap, class_def_map |-> EmptyMap, enum_def_map |-> EmptyMap,
   union_def_map |-> EmptyMap, definitions |-> <<>>]

\* no capture counts as seen
AlreadyCapturedNever(captured, capture_name, node) == FALSE

\* captured_nodes.get(capture_name).map_or(false, |v| v.contains(&node_id))
AlreadyCaptured(captured, capture_name, node) ==
  /\ capture_name \in DOMAIN captured
  /\ \E i \in 1..Len(captured[capture_name]) : captured[capture_name][i] = node

\* captured_nodes.entry(capture_name).or_default().push(node_id)
MarkCaptured(captured, capture_name, node) ==
  [OrInsert(captured, capture_name, <<>>) EXCEPT ![capture_name] = Append(@, node)]

\* node.child_by_field_name("name").map(utf8_text).unwrap_or(default)
NameFieldOr(n, default) == TextOr(ChildByFieldName(n, "name"), default)

\* the C++ name of a method, function or field from its identifier and scope nodes
CppScopedName(node, ident, scope) ==
  IF ident = 0 THEN Utf8Text(node)
  ELSE IF scope # 0 THEN Utf8Text(scope) \o Str_colons \o Utf8Text(ident)
  ELSE Utf8Text(ident)

\* the C++ arm of the name derivation
CppName(capture_name, node) ==
  IF capture_name = "class" THEN NameFieldOr(node, Utf8Text(node))
  ELSE CppScopedName(node,
         OrElse(OrElse(FindDescendantByType(node, "field_identifier"),
                       FindDescendantByType(node, "operator_name")),
                FindDescendantByType(node, "identifier")),
         ChildByFieldName(ChildByFieldName(ChildByFieldName(node, "declarator"),
                                           "declarator"), "scope"))

\* the node the C# arm takes the name from
CsharpIdentifier(capture_name, node) ==
  IF capture_name = "method" /\ CsharpIsPrimaryConstructor(node) THEN OrElse(Parent(node), node)
  ELSE IF capture_name = "class_variable"
  THEN OrElse(FindDescendantByType(node, "variable_declarator"), node)
  ELSE node

\* the C# arm of the name derivation
CsharpName(capture_name, node) ==
  NameFieldOr(CsharpIdentifier(capture_name, node), Utf8Text(node))

\* let name = match language { ... }
DeriveName(lang, capture_name, node) ==
  CASE lang = "cpp" -> CppName(capture_name, node)
    [] lang = "scala" ->
         TextOr(OrElse(ChildByFieldName(node, "name"), ChildByFieldName(node, "pattern")),
                Utf8Text(node))
    [] lang = "csharp" -> CsharpName(capture_name, node)
    [] lang = "ruby" ->
         IF capture_name \in {"class", "module"}
         THEN UnwrapOr(RubyFindParentModuleDeclarationName(node),
                       NameFieldOr(node, Utf8Text(node)))
         ELSE NameFieldOr(node, Utf8Text(node))
    [] OTHER -> NameFieldOr(node, Utf8Text(node))

\* !x.is_empty() && language == "go" && !is_first_letter_uppercase(x)
GoHidden(lang, x) == x # <<>> /\ lang = "go" /\ ~IsFirstLetterUppercase(x)

\* "class": the capture is kept
ClassAccepted(lang, name) ==
  /\ name # <<>>
  /\ ~(lang = "go" /\ ~IsFirstLetterUppercase(name))

\* class_def.borrow_mut().visibility_modifier = ...
SetVisibility(map, name, visibility_modifier) ==
  [map EXCEPT ![name].visibility_modifier = visibility_modifier]

\* "class" arm
OnClass(st, lang, node, name) ==
  IF ~ClassAccepted(lang, name) THEN st
  ELSE [st EXCEPT !.class_def_map =
          SetVisibility(EnsureClassDef(lang, name, @), name,
                        NonEmpty(TextOrEmpty(FindChildByType(node, "visibility_modifier"))))]

\* "module" arm
OnModule(st, name) ==
  IF name = <<>> THEN st
  ELSE [st EXCEPT !.class_def_map = EnsureModuleDef(name, st.class_def_map)]

\* "enum_item": enum_name
EnumItemContainer(lang, node) ==
  IF lang = "zig" THEN UnwrapOr(ZigFindParentVariableDeclarationName(node), <<>>)
  ELSE IF lang = "scala"
  THEN TextOr(ChildByFieldName(FindAncestorByType(node, "enum_definition"), "name"),
              GetClosestAncestorName(node))
  ELSE GetClosestAncestorName(node)

\* "enum_item": the capture is kept
EnumItemAccepted(lang, node) ==
  /\ ~(lang = "rust" /\ ~Contains(VisibilityModifier(node), Str_pub))
  /\ ~(lang = "zig" /\ ~ZigIsVariableDeclarationPublic(node))
  /\ ~GoHidden(lang, EnumItemContainer(lang, node))

\* the Variable an enum_item or union_item capture appends
ItemVariable(node, name) ==
  Variable(name, TextOrEmpty(FindDescendantByType(node, "type_identifier")))

\* enum_def.borrow_mut().items.push(variable), union_def.borrow_mut().items.push(variable)
PushItem(map, name, variable) == [map EXCEPT ![name].items = Append(@, variable)]

\* "enum_item" arm
OnEnumItem(st, lang, node, name) ==
  IF ~EnumItemAccepted(lang, node) THEN st
  ELSE [st EXCEPT !.enum_def_map =
          PushItem(EnsureEnumDef(EnumItemContainer(lang, node), @),
                   EnumItemContainer(lang, node), ItemVariable(node, name))]

\* "union_item": the container name
UnionItemContainer(node) == UnwrapOr(ZigFindParentVariableDeclarationName(node), <<>>)

\* "union_item": the capture is kept
UnionItemAccepted(lang, node) ==
  lang = "zig" /\ ZigIsVariableDeclarationPublic(node)

\* "union_item" arm
OnUnionItem(st, lang, node, name) ==
  IF ~UnionItemAccepted(lang, node) THEN st
  ELSE [st EXCEPT !.union_def_map =
          PushItem(EnsureUnionDef(UnionItemContainer(node), @),
                   UnionItemContainer(node), ItemVariable(node, name))]

\* the class or struct specifier a C++ member sits in
CppSpecifier(node) ==
  OrElse(FindAncestorByType(node, "class_specifier"),
         FindAncestorByType(node, "struct_specifier"))

\* "method": class_name in the languages without an arm of their own
MethodDefaultContainer(node, impl_item_node, receiver_node) ==
  IF impl_item_node # 0 THEN TextOrEmpty(ChildByFieldName(impl_item_node, "type"))
  ELSE IF receiver_node # 0
  THEN TextOrEmpty(FindDescendantByType(receiver_node, "type_identifier"))
  ELSE GetClosestAncestorName(node)

\* "method": class_name
MethodContainer(lang, node) ==
  CASE lang = "zig" -> UnwrapOr(ZigFindParentVariableDeclarationName(node), <<>>)
    [] lang = "elixir" -> UnwrapOr(ExFindParentModuleDeclarationName(node), <<>>)
    [] lang = "cpp" -> TextOrEmpty(ChildByFieldName(CppSpecifier(node), "name"))
    [] lang = "csharp" ->
         TextOrEmpty(ChildByFieldName(CsharpFindParentTypeNode(node), "name"))
    [] lang = "ruby" -> UnwrapOr(RubyFindParentModuleDeclarationName(node), <<>>)
    [] OTHER -> MethodDefaultContainer(node, FindAncestorByType(node, "impl_item"),
                                       ChildByFieldName(node, "receiver"))

\* the C# modifier test shared by "method" and "class_variable"
CsharpModifierPrivate(node) ==
  TextOrEmpty(FindDescendantByType(node, "modifier")) = Str_private

\* "method": the capture is kept
MethodAccepted(lang, node, name) ==
  /\ ~(lang = "swift" /\ Contains(VisibilityModifier(node), Str_private))
  /\ ~(lang = "java" /\ JavaModifiersPrivate(node))
  /\ ~(lang = "rust" /\ ~Contains(VisibilityModifier(node), Str_pub))
  /\ ~(lang = "zig" /\ ~(/\ ZigIsFunctionDeclarationPublic(node)
                         /\ ZigIsVariableDeclarationPublic(node)))
  /\ ~(lang = "cpp" /\ FindDescendantByType(node, "destructor_name") # 0)
  /\ ~GoHidden(lang, name)
  /\ ~(/\ lang = "csharp"
       /\ \/ FindDescendantByType(node, "modifier") = 0 /\ ~CsharpIsPrimaryConstructor(node)
          \/ CsharpModifierPrivate(node))
  /\ ~(lang = "go" /\ ~IsFirstLetterUppercase(MethodContainer(lang, node)))

\* "method": params
MethodParams(lang, node) ==
  TextOr(CASE lang = "elixir" -> FindChildByType(FindAncestorByType(node, "call"), "arguments")
           [] lang = "zig" ->
                FindChildByType(FindAncestorByType(node, "function_declaration"), "parameters")
           [] OTHER -> OrElse(ChildByFieldName(node, "parameters"),
                              FindDescendantByType(node, "parameter_list")),
         Str_parens)

\* a String, or the default when it is empty
NonEmptyOr(s, default) == IF s # <<>> THEN s ELSE default

\* the return type text of a node: get_node_type, else the node's own text
ReturnTypeText(return_type_node) ==
  NonEmptyOr(GetNodeType(return_type_node), Utf8Text(return_type_node))

\* the return type text, or the default when there is no return type node
ReturnTypeOr(return_type_node, default) ==
  IF return_type_node # 0 THEN ReturnTypeText(return_type_node) ELSE default

\* "method": the name node of the enclosing type that a constructor is compared with
OwnTypeName(lang, node) ==
  CASE lang = "cpp" -> ChildByFieldName(FindAncestorByType(node, "class_specifier"), "name")
    [] lang = "csharp" -> ChildByFieldName(CsharpFindParentTypeNode(node), "name")
    [] OTHER -> 0

\* the declared return type node is kept, whatever the method's name
ConstructorTypeDeclared(type_identifier_node, name, return_type_node) == return_type_node

\* a method named as its type takes the type's name node as its return type node
ConstructorType(type_identifier_node, name, return_type_node) ==
  IF type_identifier_node # 0 /\ name = Utf8Text(type_identifier_node)
  THEN type_identifier_node
  ELSE return_type_node

\* "method": the first choice of return_type_node
DeclaredReturnType(lang, node) ==
  CASE lang = "cpp" -> ChildByFieldName(node, "type")
    [] lang = "csharp" -> ChildByFieldName(node, "returns")
    [] OTHER -> ChildByFieldName(node, "return_type")

\* "method": return_type
MethodReturnType(lang, node, name) ==
  ReturnTypeOr(OrElse(ConstructorType(OwnTypeName(lang, node), name,
                                      DeclaredReturnType(lang, node)),
                      ChildByFieldName(node, "result")),
               IF lang = "elixir" THEN <<>> ELSE Str_void)

\* "method": accessibility_modifier
MethodAccessibility(lang, node) ==
  IF lang = "ruby" THEN (IF RubyMethodIsPrivate(node) THEN Str_private ELSE <<>>)
  ELSE TextOrEmpty(FindDescendantByType(node, "accessibility_modifier"))

\* the Func a method capture appends
MethodFunc(lang, node, name) ==
  Func(name, MethodParams(lang, node), MethodReturnType(lang, node, name),
       NonEmpty(MethodAccessibility(lang, node)))

\* the method is put in front of the others
PushMethodFront(map, class_name, func) ==
  [map EXCEPT ![class_name].methods = <<func>> \o @]

\* class_def.borrow_mut().methods.push(func)
PushMethod(map, class_name, func) == [map EXCEPT ![class_name].methods = Append(@, func)]

\* class_def.borrow_mut().properties.push(variable)
PushProperty(map, class_name, variable) ==
  [map EXCEPT ![class_name].properties = Append(@, variable)]

\* the container is fetched or created before the filters are tested
OnMethodEnsureFirst(st, lang, node, name) ==
  IF ~MethodAccepted(lang, node, name)
  THEN [st EXCEPT !.class_def_map = EnsureClassDef(lang, MethodContainer(lang, node), @)]
  ELSE [st EXCEPT !.class_def_map =
          PushMethod(EnsureClassDef(lang, MethodContainer(lang, node), @),
                     MethodContainer(lang, node), MethodFunc(lang, node, name))]

\* "method" arm
OnMethod(st, lang, node, name) ==
  IF ~MethodAccepted(lang, node, name) THEN st
  ELSE [st EXCEPT !.class_def_map =
          PushMethod(EnsureClassDef(lang, MethodContainer(lang, node), @),
                     MethodContainer(lang, node), MethodFunc(lang, node, name))]

\* "class_assignment": the Ruby namespaced name replaces a non-empty class_name
Namespaced(lang, node, class_name) ==
  IF class_name # <<>> /\ lang = "ruby"
  THEN UnwrapOr(RubyFindParentModuleDeclarationName(node), class_name)
  ELSE class_name

\* "class_assignment": class_name
ClassAssignmentContainer(lang, node) ==
  Namespaced(lang, node, GetClosestAncestorName(node))

\* the filters of "class_assignment" without the test of an empty class_name
ClassAssignmentAcceptedNameless(lang, node) ==
  /\ ~(lang \in {"swift", "java"} /\ Contains(VisibilityModifier(node), Str_private))
  /\ ~(lang = "java" /\ JavaModifiersPrivate(node))
  /\ ~(lang = "rust" /\ ~Contains(VisibilityModifier(node), Str_pub))
  /\ ~GoHidden(lang, GetClosestAncestorName(node))

\* "class_assignment": the capture is kept
ClassAssignmentAccepted(lang, node) ==
  /\ ~(lang \in {"swift", "java"} /\ Contains(VisibilityModifier(node), Str_private))
  /\ ~(lang = "java" /\ JavaModifiersPrivate(node))
  /\ ~(lang = "rust" /\ ~Contains(VisibilityModifier(node), Str_pub))
  /\ ~GoHidden(lang, GetClosestAncestorName(node))
  /\ ClassAssignmentContainer(lang, node) # <<>>

\* the Variable a class_assignment capture appends
ClassAssignmentVariable(node) ==
  Variable(TextOrEmpty(ChildByFieldName(node, "left")), GetNodeType(node))

\* "class_assignment" arm
OnClassAssignment(st, lang, node) ==
  IF ~ClassAssignmentAccepted(lang, node) THEN st
  ELSE [st EXCEPT !.class_def_map =
          PushProperty(EnsureClassDef(lang, ClassAssignmentContainer(lang, node), @),
                       ClassAssignmentContainer(lang, node), ClassAssignmentVariable(node))]

\* "class_variable": class_name
ClassVariableContainer(lang, node) ==
  IF lang = "zig" THEN UnwrapOr(ZigFindParentVariableDeclarationName(node), <<>>)
  ELSE IF lang = "cpp" THEN TextOrEmpty(ChildByFieldName(CppSpecifier(node), "name"))
  ELSE GetClosestAncestorName(node)

\* the filters of "class_variable" without the test of an unresolved container
ClassVariableAcceptedUnresolved(lang, node, name) ==
  /\ ~(lang = "rust" /\ ~Contains(VisibilityModifier(node), Str_pub))
  /\ ~(lang \in {"swift", "java"} /\ Contains(VisibilityModifier(node), Str_private))
  /\ ~(lang = "java" /\ JavaModifiersPrivate(node))
  /\ ~(lang = "zig" /\ ~ZigIsVariableDeclarationPublic(node))
  /\ ~(/\ lang = "csharp"
       /\ \/ FindDescendantByType(node, "modifier") = 0
          \/ CsharpModifierPrivate(node))
  /\ ~GoHidden(lang, ClassVariableContainer(lang, node))
  /\ ~GoHidden(lang, name)

\* "class_variable": the capture is kept
ClassVariableAccepted(lang, node, name) ==
  /\ ~(lang = "rust" /\ ~Contains(VisibilityModifier(node), Str_pub))
  /\ ~(lang \in {"swift", "java"} /\ Contains(VisibilityModifier(node), Str_private))
  /\ ~(lang = "java" /\ JavaModifiersPrivate(node))
  /\ ~(lang = "zig" /\ ~ZigIsVariableDeclarationPublic(node))
  /\ ~(/\ lang = "csharp"
       /\ \/ FindDescendantByType(node, "modifier") = 0
          \/ CsharpModifierPrivate(node))
  /\ ~GoHidden(lang, ClassVariableContainer(lang, node))
  /\ ClassVariableContainer(lang, node) # <<>>
  /\ ~GoHidden(lang, name)

\* "class_variable" arm
OnClassVariable(st, lang, node, name) ==
  IF ~ClassVariableAccepted(lang, node, name) THEN st
  ELSE [st EXCEPT !.class_def_map =
          PushProperty(EnsureClassDef(lang, ClassVariableContainer(lang, node), @),
                       ClassVariableContainer(lang, node), Variable(name, GetNodeType(node)))]

\* an ancestor of one of the kinds that hide a top-level function
FunctionNested(node) ==
  \/ FindAncestorByType(node, "impl_item") # 0
  \/ FindAncestorByType(node, "class_specifier") # 0
  \/ FindAncestorByType(node, "struct_specifier") # 0
  \/ FindAncestorByType(node, "function_declaration") # 0
  \/ FindAncestorByType(node, "function_definition") # 0

\* "function" | "arrow_function": the capture is kept
FunctionAccepted(lang, node, name) ==
  /\ ~(lang \in {"swift", "java"} /\ Contains(VisibilityModifier(node), Str_private))
  /\ ~(lang \in {"swift", "java"} /\ Parent(node) # 0)
  /\ ~(lang = "java" /\ JavaModifiersPrivate(node))
  /\ ~(lang = "rust" /\ ~Contains(VisibilityModifier(node), Str_pub))
  /\ ~(lang = "zig" /\ ~Contains(Utf8Text(node), Str_pub))
  /\ ~GoHidden(lang, name)
  /\ ~FunctionNested(node)

\* "function": return_type_node
FunctionReturnNode(lang, node) ==
  IF lang = "cpp" THEN ChildByFieldName(node, "type")
  ELSE OrElse(ChildByFieldName(node, "return_type"), ChildByFieldName(node, "result"))

\* the Func a function capture appends
FunctionFunc(lang, node, name) ==
  Func(name,
       TextOr(OrElse(ChildByFieldName(node, "parameters"),
                     FindDescendantByType(node, "parameter_list")), Str_parens),
       ReturnTypeOr(FunctionReturnNode(lang, node), Str_void),
       NonEmpty(TextOrEmpty(FindDescendantByType(node, "accessibility_modifier"))))

\* the definition is put in front of the others
PushFront(defs, d) == <<d>> \o defs

\* definitions.push
Push(defs, d) == Append(defs, d)

\* "function" | "arrow_function" arm
OnFunction(st, lang, node, name) ==
  IF ~FunctionAccepted(lang, node, name) THEN st
  ELSE [st EXCEPT !.definitions = Push(@, Definition("Func", FunctionFunc(lang, node, name)))]

\* an ancestor of one of the kinds that hide a top-level variable
VariableNested(node) ==
  \/ FindAncestorByType(node, "impl_item") # 0
  \/ FindAncestorByType(node, "class_declaration") # 0
  \/ FindAncestorByType(node, "class_definition") # 0
  \/ FindAncestorByType(node, "function_declaration") # 0
  \/ FindAncestorByType(node, "function_definition") # 0

\* "assignment": the capture is kept
AssignmentAccepted(lang, node) ==
  /\ ~(lang \in {"swift", "java"} /\ Contains(VisibilityModifier(node), Str_private))
  /\ ~(lang = "java" /\ JavaModifiersPrivate(node))
  /\ ~(lang = "rust" /\ ~Contains(VisibilityModifier(node), Str_pub))
  /\ ~VariableNested(node)
  /\ ~GoHidden(lang, TextOrEmpty(ChildByFieldName(node, "left")))

\* "assignment" arm
OnAssignment(st, lang, node) ==
  IF ~AssignmentAccepted(lang, node) THEN st
  ELSE [st EXCEPT !.definitions =
          Push(@, Definition("Variable", ClassAssignmentVariable(node)))]

\* "variable": the value node is an arrow_function
ValueIsArrowFunction(node) ==
  /\ ChildByFieldName(node, "value") # 0
  /\ Kind(ChildByFieldName(node, "value")) = "arrow_function"

\* "variable": the capture is kept
VariableAccepted(lang, node, name) ==
  /\ ~(lang = "swift" /\ Contains(VisibilityModifier(node), Str_private))
  /\ ~(lang = "java" /\ JavaModifiersPrivate(node))
  /\ ~(lang = "rust" /\ ~Contains(VisibilityModifier(node), Str_pub))
  /\ ~(lang = "zig" /\ ~ZigIsVariableDeclarationPublic(node))
  /\ ~VariableNested(node)
  /\ \/ ValueIsArrowFunction(node)
     \/ /\ ~(lang = "zig" /\ ZigFindTypeInParent(node) = None)
        /\ ~GoHidden(lang, name)

\* the Func a variable capture holding an arrow function appends
ArrowFunc(name, value_node) ==
  Func(name,
       TextOr(ChildByFieldName(value_node, "parameters"), Str_parens),
       IF ChildByFieldName(value_node, "return_type") = 0 THEN Str_void
       ELSE GetNodeType(ChildByFieldName(value_node, "return_type")),
       None)

\* the Definition a variable capture appends
VariableDefinition(lang, node, name) ==
  IF ValueIsArrowFunction(node)
  THEN Definition("Func", ArrowFunc(name, ChildByFieldName(node, "value")))
  ELSE Definition("Variable",
         Variable(name, IF lang = "zig" THEN UnwrapOr(ZigFindTypeInParent(node), <<>>)
                        ELSE GetNodeType(node)))

\* "variable" arm
OnVariable(st, lang, node, name) ==
  IF ~VariableAccepted(lang, node, name) THEN st
  ELSE [st EXCEPT !.definitions = Push(@, VariableDefinition(lang, node, name))]

\* match *capture_name { ... }
Dispatch(st, lang, capture_name, node, name) ==
  CASE capture_name = "class" -> OnClass(st, lang, node, name)
    [] capture_name = "module" -> OnModule(st, name)
    [] capture_name = "enum_item" -> OnEnumItem(st, lang, node, name)
    [] capture_name = "union_item" -> OnUnionItem(st, lang, node, name)
    [] capture_name = "method" -> OnMethod(st, lang, node, name)
    [] capture_name = "class_assignment" -> OnClassAssignment(st, lang, node)
    [] capture_name = "class_variable" -> OnClassVariable(st, lang, node, name)
    [] capture_name \in {"function", "arrow_function"} -> OnFunction(st, lang, node, name)
    [] capture_name = "assignment" -> OnAssignment(st, lang, node)
    [] capture_name = "variable" -> OnVariable(st, lang, node, name)
    [] OTHER -> st

\* one iteration of the capture loop
ProcessCapture(st, lang, capture_name, node) ==
  IF AlreadyCaptured(st.captured_nodes, capture_name, node) THEN st
  ELSE Dispatch([st EXCEPT !.captured_nodes = MarkCaptured(@, capture_name, node)],
                lang, capture_name, node, DeriveName(lang, capture_name, node))

\* every class is emitted
ClassEmittedAlways(lang, class_def) == TRUE

\* the Rust test of the final class pass
ClassEmitted(lang, class_def) ==
  IF lang = "rust"
  THEN /\ class_def.visibility_modifier # None
       /\ Contains(class_def.visibility_modifier[1], Str_pub)
  ELSE TRUE

\* every value of the map is wrapped twice
WrapTwice(map, keys, tag) ==
  [i \in 1..(2 * Len(keys)) |-> Definition(tag, map[keys[((i - 1) % Len(keys)) + 1]])]

\* the values of a map in the order of a key sequence, each wrapped as a Definition
Wrap(map, keys, tag) == [i \in 1..Len(keys) |-> Definition(tag, map[keys[i]])]

\* a map's values in key order, each wrapped as a Definition
Drain(map, tag) == Wrap(map, SortedKeys(DOMAIN map), tag)

RECURSIVE ClassPass(_, _)
\* for (_, def) in class_def_map { ... } over the classes in key order
ClassPass(lang, defs) ==
  IF defs = <<>> THEN <<>>
  ELSE (IF ClassEmitted(lang, Head(defs).val) THEN <<Head(defs)>> ELSE <<>>)
         \o ClassPass(lang, Tail(defs))

\* the three loops after the capture loop
FinalPass(st, lang) ==
  st.definitions \o ClassPass(lang, Drain(st.class_def_map, "Class"))
                 \o Drain(st.enum_def_map, "Enum")
                 \o Drain(st.union_def_map, "Union")

(***************************************************************************)
(* Serializer                                                              *)
(***************************************************************************)
\* "{modifier} {res}" when there is a modifier
WithModifier(accessibility_modifier, res) ==
  IF accessibility_modifier # None THEN accessibility_modifier[1] \o <<" ">> \o res ELSE res

\* the arrow is written whether or not there is a return type
StringifyFunctionArrowAlways(func) ==
  WithModifier(func.accessibility_modifier,
               Str_func \o func.name
                 \o (IF func.params = <<>> THEN Str_parens ELSE func.params)
                 \o Str_arrow \o func.return_type)
    \o <<";">>

\* stringify_function
StringifyFunction(func) ==
  WithModifier(func.accessibility_modifier,
               Str_func \o func.name
                 \o (IF func.params = <<>> THEN Str_parens ELSE func.params)
                 \o (IF func.return_type # <<>> THEN Str_arrow \o func.return_type ELSE <<>>))
    \o <<";">>

\* the variable without its closing semicolon
StringifyVariableOpen(variable) ==
  Str_var \o variable.name
    \o (IF variable.value_type # <<>> THEN <<":">> \o variable.value_type ELSE <<>>)

\* stringify_variable
StringifyVariable(variable) ==
  Str_var \o variable.name
    \o (IF variable.value_type # <<>> THEN <<":">> \o variable.value_type ELSE <<>>)
    \o <<";">>

\* stringify_enum_item, stringify_union_item
StringifyItem(item) ==
  item.name \o (IF item.value_type # <<>> THEN <<":">> \o item.value_type ELSE <<>>) \o <<";">>

RECURSIVE StringifyMethods(_)
\* for method in &class.methods
StringifyMethods(methods) ==
  IF methods = <<>> THEN <<>>
  ELSE StringifyFunction(Head(methods)) \o StringifyMethods(Tail(methods))

RECURSIVE StringifyProperties(_)
\* for property in &class.properties
StringifyProperties(properties) ==
  IF properties = <<>> THEN <<>>
  ELSE StringifyVariable(Head(properties)) \o StringifyProperties(Tail(properties))

RECURSIVE StringifyItems(_)
\* for item in &enum_def.items, for item in &union_def.items
StringifyItems(items) ==
  IF items = <<>> THEN <<>> ELSE StringifyItem(Head(items)) \o StringifyItems(Tail(items))

\* stringify_class
StringifyClass(class) ==
  class.type_name \o <<" ">> \o class.name \o <<"{">>
    \o StringifyMethods(class.methods)
    \o StringifyProperties(class.properties)
    \o <<"}", ";">>

\* stringify_enum
StringifyEnum(enum_def) ==
  Str_enum \o enum_def.name \o <<"{">> \o StringifyItems(enum_def.items) \o <<"}", ";">>

\* stringify_union
StringifyUnion(union_def) ==
  Str_union \o union_def.name \o <<"{">> \o StringifyItems(union_def.items)
    \o <<"}", ";">>

\* one arm of the match in stringify_definitions
StringifyDefinition(d) ==
  CASE d.tag \in {"Class", "Module"} -> StringifyClass(d.val)
    [] d.tag = "Enum" -> StringifyEnum(d.val)
    [] d.tag = "Union" -> StringifyUnion(d.val)
    [] d.tag = "Func" -> StringifyFunction(d.val)
    [] d.tag = "Variable" -> StringifyVariable(d.val)

RECURSIVE StringifyDefinitions(_)
\* stringify_definitions
StringifyDefinitions(defs) ==
  IF defs = <<>> THEN <<>>
  ELSE StringifyDefinition(Head(defs)) \o StringifyDefinitions(Tail(defs))

GenericCaptures ==
  {<<"variable", 3>>, <<"variable", 9>>, <<"function", 14>>, <<"class", 18>>, <<"method", 21>>, <<"function", 21>>, <<"class_variable", 26>>, <<"method", 30>>, <<"class_variable", 34>>, <<"class", 38>>, <<"method", 41>>}
RustCaptures ==
  {<<"class", 47>>, <<"class", 58>>, <<"class_variable", 51>>, <<"class_variable", 61>>, <<"method", 68>>, <<"method", 74>>, <<"function", 68>>, <<"function", 79>>, <<"method", 79>>}
GoCaptures ==
  {<<"variable", 86>>, <<"variable", 90>>, <<"class", 94>>, <<"class_variable", 98>>, <<"class_variable", 101>>, <<"enum_item", 101>>, <<"method", 104>>, <<"method", 114>>, <<"function", 124>>, <<"method", 124>>, <<"enum_item", 124>>}
ZigCaptures ==
  {<<"variable", 132>>, <<"variable", 136>>, <<"class_variable", 143>>, <<"method", 149>>, <<"class_variable", 157>>, <<"method", 163>>, <<"enum_item", 181>>, <<"union_item", 173>>, <<"function", 182>>, <<"function", 443>>, <<"function", 449>>, <<"union_item", 461>>, <<"enum_item", 461>>}
SwiftCaptures ==
  {<<"variable", 190>>, <<"variable", 194>>, <<"variable", 196>>, <<"class", 200>>, <<"method", 203>>, <<"method", 208>>, <<"method", 211>>, <<"function", 216>>}
JavaCaptures ==
  {<<"class", 220>>, <<"method", 225>>, <<"method", 232>>, <<"method", 237>>, <<"function", 225>>}
CsharpCaptures ==
  {<<"class", 245>>, <<"method", 248>>, <<"method", 250>>, <<"method", 256>>, <<"method", 261>>, <<"method", 267>>, <<"class_variable", 272>>}
CppCaptures ==
  {<<"class", 279>>, <<"method", 282>>, <<"method", 286>>, <<"method", 290>>, <<"class_variable", 295>>, <<"class", 298>>, <<"method", 301>>, <<"function", 305>>, <<"function", 311>>}
RubyCaptures ==
  {<<"assignment", 320>>, <<"function", 323>>, <<"module", 327>>, <<"class", 331>>, <<"method", 335>>, <<"class_assignment", 340>>, <<"method", 344>>, <<"assignment", 340>>, <<"module", 351>>, <<"method", 355>>, <<"class_assignment", 320>>, <<"method", 464>>, <<"method", 473>>, <<"method", 482>>, <<"class", 478>>}
ElixirCaptures ==
  {<<"method", 372>>, <<"method", 379>>, <<"function", 372>>, <<"method", 387>>}
ScalaCaptures ==
  {<<"variable", 391>>, <<"class", 394>>, <<"method", 397>>, <<"class_variable", 401>>, <<"enum_item", 408>>, <<"enum_item", 410>>}
ScriptCaptures ==
  {<<"function", 413>>, <<"assignment", 418>>, <<"variable", 424>>, <<"function", 427>>, <<"class", 431>>, <<"method", 437>>, <<"class_variable", 441>>, <<"class_variable", 424>>, <<"method", 413>>, <<"enum_item", 413>>, <<"variable", 488>>}

\* the nodes of the samples whose byte range is not valid UTF-8
MalformedNodes == {488}

\* the part of the generic sample the other generic-family scripts capture
SmallCaptures == {<<"variable", 3>>, <<"function", 14>>, <<"class", 18>>, <<"method", 21>>}

(***************************************************************************)
(* Tokenizer module (avante-tokenizers)                                    *)
(***************************************************************************)
\* the threads that share the Arc<State>
Threads == {1, 2}

\* the model names of the samples: the Tiktoken model and a HuggingFace model
Models == {"gpt-4o", "gpt2"}

\* the texts of the samples
Texts == {<<>>, <<"H", "i">>}

\* Mutex::new(value): nobody holds it and it is not poisoned
Mutex(value) == [value |-> value, holder |-> 0, poisoned |-> FALSE]

\* enum TokenizerType
TokenizerType(kind, model) == [kind |-> kind, model |-> model]

\* what a call hands back: Ok((tokens, num_tokens, num_chars)), Ok(()), Err(message) or a panic
Outcome(kind, tokens, num_chars) ==
  [kind |-> kind, tokens |-> tokens, num_tokens |-> Len(tokens), num_chars |-> num_chars]

\* the call has not ended
Pending == Outcome("pending", <<>>, 0)

\* an unwrap() failed and the call unwinds
Panicked == Outcome("panic", <<>>, 0)

\* from_pretrained returned
Unit == Outcome("unit", <<>>, 0)

\* Err(LuaError::RuntimeError("Tokenizer not initialized"))
NotInitialized == Outcome("Tokenizer not initialized", <<>>, 0)

\* a thread that runs no call
NoCall ==
  [op |-> "none", model |-> "", text |-> <<>>, fetched |-> TRUE, at |-> "idle",
   local |-> None, prior |-> <<>>, ret |-> Pending, expect |-> Pending]

\* the token a character is mapped to by the vocabulary of the samples
TokenId(ch) == IF ch = "H" THEN 1 ELSE 2

\* Tiktoken::encode
TiktokenEncode(text) ==
  Outcome("Ok", [i \in 1..Len(text) |-> TokenId(text[i])], Len(text))

\* HuggingFaceTokenizer::encode: get_offsets().last().unwrap() fails on an empty encoding
HuggingFaceEncode(text) ==
  IF text = <<>> THEN Panicked
  ELSE Outcome("Ok", [i \in 1..Len(text) |-> 100 + TokenId(text[i])], Len(text))

\* match tokenizer.as_ref() { ... } of encode
EncodeMatch(value, text) ==
  IF value = None THEN NotInitialized
  ELSE IF value[1].kind = "Tiktoken" THEN TiktokenEncode(text)
  ELSE HuggingFaceEncode(text)

\* match model { "gpt-4o" => Tiktoken, _ => HuggingFace } of from_pretrained
NewTokenizer(model) ==
  IF model = "gpt-4o" THEN TokenizerType("Tiktoken", model)
  ELSE TokenizerType("HuggingFace", model)

\* HuggingFaceTokenizer::new unwraps the download and the parse of tokenizer.json
ConstructionPanics(model, fetched) == model # "gpt-4o" /\ ~fetched

\* the lock can be taken whoever holds it
MutexFreeAlways(mutex) == TRUE

\* Mutex::lock blocks while another thread holds the guard
MutexFree(mutex) == mutex.holder = 0

\* what the call returns when it runs alone on the state s
SerialOutcome(s, call) ==
  IF s.poisoned THEN Panicked
  ELSE IF call.op = "from_pretrained"
  THEN (IF ConstructionPanics(call.model, call.fetched) THEN Panicked ELSE Unit)
  ELSE EncodeMatch(s.value, call.text)

\* the state the call leaves when it runs alone on the state s
SerialState(s, call) ==
  IF s.poisoned THEN s
  ELSE IF SerialOutcome(s, call) = Panicked THEN [s EXCEPT !.poisoned = TRUE]
  ELSE IF call.op = "from_pretrained" THEN [s EXCEPT !.value = Some(NewTokenizer(call.model))]
  ELSE s

\* the variables of the definition extractor
mapVars == <<pc, language, tree, stream, captured_nodes, class_def_map, enum_def_map,
             union_def_map, definitions, result, error, accepted, shadow, removed, reentered>>

\* a thread calls from_pretrained(&state, model); fetched: the tokenizer file can be had
FromPretrained(t, model, fetched) ==
  /\ calls[t].at \in {"idle", "returned", "panicked"}
  /\ serial.started < MaxCalls
  /\ calls' = [calls EXCEPT ![t] = [NoCall EXCEPT !.op = "from_pretrained", !.model = model,
                                                  !.fetched = fetched, !.at = "lock"]]
  /\ serial' = [serial EXCEPT !.started = @ + 1]
  /\ UNCHANGED <<tokenizer, mapVars>>

\* a thread calls encode(&state, text)
Encode(t, text) ==
  /\ calls[t].at \in {"idle", "returned", "panicked"}
  /\ serial.started < MaxCalls
  /\ calls' = [calls EXCEPT ![t] = [NoCall EXCEPT !.op = "encode", !.text = text, !.at = "lock"]]
  /\ serial' = [serial EXCEPT !.started = @ + 1]
  /\ UNCHANGED <<tokenizer, mapVars>>

\* state.tokenizer.lock().unwrap(): a poisoned mutex makes the unwrap panic
Lock(t) ==
  /\ calls[t].at = "lock"
  /\ MutexFree(tokenizer)
  /\ IF tokenizer.poisoned
     THEN /\ calls' = [calls EXCEPT ![t].at = "panicked", ![t].ret = Panicked,
                                    ![t].prior = serial.completed,
                                    ![t].expect = SerialOutcome(serial, calls[t])]
          /\ UNCHANGED tokenizer
     ELSE /\ calls' = [calls EXCEPT ![t].at = "locked", ![t].prior = serial.completed,
                                    ![t].expect = SerialOutcome(serial, calls[t])]
          /\ tokenizer' = [tokenizer EXCEPT !.holder = t]
  /\ serial' = SerialState(serial, calls[t])
  /\ UNCHANGED mapVars

\* from_pretrained builds the tokenizer while it holds the guard; a panic poisons the mutex
Construct(t) ==
  /\ calls[t].at = "locked"
  /\ calls[t].op = "from_pretrained"
  /\ IF ConstructionPanics(calls[t].model, calls[t].fetched)
     THEN /\ calls' = [calls EXCEPT ![t].at = "panicked", ![t].ret = Panicked]
          /\ tokenizer' = [tokenizer EXCEPT !.holder = 0, !.poisoned = TRUE]
     ELSE /\ calls' = [calls EXCEPT ![t].at = "built",
                                    ![t].local = Some(NewTokenizer(calls[t].model))]
          /\ UNCHANGED tokenizer
  /\ UNCHANGED <<serial, mapVars>>

\* *tokenizer_mutex = Some(...); the guard is dropped and from_pretrained returns
Install(t) ==
  /\ calls[t].at = "built"
  /\ tokenizer' = [tokenizer EXCEPT !.value = calls[t].local, !.holder = 0]
  /\ calls' = [calls EXCEPT ![t].at = "returned", ![t].ret = Unit]
  /\ serial' = [serial EXCEPT !.completed = Append(@, calls[t].model)]
  /\ UNCHANGED mapVars

\* encode reads the slot: tokenizer.as_ref()
Match(t) ==
  /\ calls[t].at = "locked"
  /\ calls[t].op = "encode"
  /\ calls' = [calls EXCEPT ![t].at = "matched", ![t].local = tokenizer.value]
  /\ UNCHANGED <<tokenizer, serial, mapVars>>

\* encode runs the tokenizer it read, drops the guard and returns; a panic poisons the mutex
Unlock(t) ==
  /\ calls[t].at = "matched"
  /\ calls' = [calls EXCEPT
                 ![t].ret = EncodeMatch(calls[t].local, calls[t].text),
                 ![t].at = IF EncodeMatch(calls[t].local, calls[t].text) = Panicked
                           THEN "panicked" ELSE "returned"]
  /\ tokenizer' = [tokenizer EXCEPT
                     !.holder = 0,
                     !.poisoned = @ \/ EncodeMatch(calls[t].local, calls[t].text) = Panicked]
  /\ UNCHANGED <<serial, mapVars>>

NextTok ==
  \/ \E t \in Threads : \E model \in Models : \E fetched \in BOOLEAN :
        FromPretrained(t, model, fetched)
  \/ \E t \in Threads : \E text \in Texts : Encode(t, text)
  \/ \E t \in Threads : Lock(t)
  \/ \E t \in Threads : Construct(t)
  \/ \E t \in Threads : Install(t)
  \/ \E t \in Threads : Match(t)
  \/ \E t \in Threads : Unlock(t)

\* The captures the pattern script of a language yields on the sample tree of its grammar.
CapturesOf(lang) ==
  CASE lang = "typescript" -> GenericCaptures
    [] lang \in {"python", "php", "lua", "c"} -> SmallCaptures
    [] lang = "javascript" -> ScriptCaptures
    [] lang = "rust" -> RustCaptures
    [] lang = "go" -> GoCaptures
    [] lang = "zig" -> ZigCaptures
    [] lang = "swift" -> SwiftCaptures
    [] lang = "java" -> JavaCaptures
    [] lang = "csharp" -> CsharpCaptures
    [] lang = "cpp" -> CppCaptures
    [] lang = "ruby" -> RubyCaptures
    [] lang = "elixir" -> ElixirCaptures
    [] lang = "scala" -> ScalaCaptures
    [] OTHER -> {}

\* The root of the sample tree of a language's grammar.
TreeRoot(lang) ==
  CASE lang \in {"typescript", "python", "php", "lua", "c"} -> 1
    [] lang = "javascript" -> 412
    [] lang = "rust" -> 46
    [] lang = "go" -> 84
    [] lang = "zig" -> 128
    [] lang = "swift" -> 189
    [] lang = "java" -> 219
    [] lang = "csharp" -> 244
    [] lang = "cpp" -> 278
    [] lang = "ruby" -> 319
    [] lang = "elixir" -> 361
    [] lang = "scala" -> 390

\* parser.parse(source): the nodes of the tree, by node id
ParsedTrees ==
  [lang \in {"rust", "python", "php", "java", "javascript", "typescript", "go", "c",
             "cpp", "lua", "ruby", "zig", "scala", "swift", "elixir", "csharp"} |->
     [n \in {m \in NodeIds : RootOf(m) = TreeRoot(lang)} |-> SourceNodes[n]]]

\* no tree: the parser has not run
NoTree == <<>>

\* parser.parse(source, None)
Parse(lang) == IF lang \in DOMAIN ParsedTrees THEN ParsedTrees[lang] ELSE NoTree

\* The language tags a caller passes: the sixteen registered ones and two that are not.
Languages ==
  {"rust", "python", "php", "java", "javascript", "typescript", "go", "c",
   "cpp", "lua", "ruby", "zig", "scala", "swift", "elixir", "csharp",
   "unknown", "kotlin"}

(***************************************************************************)
(* The call get_definitions_string(language, source) as a state machine     *)
(***************************************************************************)
\* the locals of extract_definitions as one record
State ==
  [captured_nodes |-> captured_nodes, class_def_map |-> class_def_map,
   enum_def_map |-> enum_def_map, union_def_map |-> union_def_map,
   definitions |-> definitions]

\* the locals after a step
SetState(st) ==
  /\ captured_nodes' = st.captured_nodes
  /\ class_def_map' = st.class_def_map
  /\ enum_def_map' = st.enum_def_map
  /\ union_def_map' = st.union_def_map
  /\ definitions' = st.definitions

\* the filters of the capture's arm let it append a member or a top-level symbol
ArmAccepted(lang, capture_name, node, name) ==
  CASE capture_name = "enum_item" -> EnumItemAccepted(lang, node)
    [] capture_name = "union_item" -> UnionItemAccepted(lang, node)
    [] capture_name = "method" -> MethodAccepted(lang, node, name)
    [] capture_name = "class_assignment" -> ClassAssignmentAccepted(lang, node)
    [] capture_name = "class_variable" -> ClassVariableAccepted(lang, node, name)
    [] capture_name \in {"function", "arrow_function"} -> FunctionAccepted(lang, node, name)
    [] capture_name = "assignment" -> AssignmentAccepted(lang, node)
    [] capture_name = "variable" -> VariableAccepted(lang, node, name)
    [] OTHER -> FALSE

\* the capture passes the duplicate test and the filters of its arm
Kept(st, lang, capture_name, node) ==
  /\ ~AlreadyCaptured(st.captured_nodes, capture_name, node)
  /\ ArmAccepted(lang, capture_name, node, DeriveName(lang, capture_name, node))

\* the locals of the previous call, kept
EnterLoopStale(st) == st

\* the locals at the start of a call
EnterLoop(st) == Fresh

Init ==
  /\ pc = "idle"
  /\ language = "unknown"
  /\ tree = NoTree
  /\ stream = <<>>
  /\ captured_nodes = EmptyMap
  /\ class_def_map = EmptyMap
  /\ enum_def_map = EmptyMap
  /\ union_def_map = EmptyMap
  /\ definitions = <<>>
  /\ result = <<>>
  /\ error = None
  /\ accepted = <<>>
  /\ shadow = Fresh
  /\ removed = 0
  /\ reentered = FALSE
  /\ tokenizer = Mutex(None)
  /\ calls = [t \in Threads |-> NoCall]
  /\ serial = [value |-> None, poisoned |-> FALSE, completed |-> <<>>, started |-> 0]

\* get_definitions_string is entered; extract_definitions runs up to the capture loop
Enter(lang) ==
  /\ pc \in {"idle", "done"}
  /\ language' = lang
  /\ stream' = <<>>
  /\ accepted' = <<>>
  /\ reentered' = (pc = "done")
  /\ UNCHANGED <<tokenizer, calls, serial>>
  /\ IF ~GetTsLanguage(lang)
     THEN /\ tree' = NoTree
          /\ SetState(Fresh)
          /\ result' = StringifyDefinitions(<<>>)
          /\ error' = None
          /\ pc' = "done"
     ELSE IF ~GetDefinitionsQuery(lang)
     THEN /\ tree' = Parse(lang)
          /\ SetState(Fresh)
          /\ result' = <<>>
          /\ error' = Some("Unsupported language")
          /\ pc' = "done"
     ELSE /\ tree' = Parse(lang)
          /\ SetState(EnterLoop(State))
          /\ result' = <<>>
          /\ error' = None
          /\ pc' = "loop"

\* one iteration of `for capture in m.captures`
Step(c) ==
  /\ pc = "loop"
  /\ Len(stream) < MaxCaptures
  /\ c \in CapturesOf(language)
  /\ stream' = Append(stream, c)
  /\ IF c[2] \in MalformedNodes
       THEN \* `node.utf8_text(source.as_bytes()).unwrap()` panics and the call unwinds
            /\ pc' = "aborted"
            /\ UNCHANGED <<captured_nodes, class_def_map, enum_def_map, union_def_map,
                           definitions, accepted>>
       ELSE /\ SetState(ProcessCapture(State, language, c[1], c[2]))
            /\ accepted' = IF Kept(State, language, c[1], c[2]) THEN Append(accepted, c)
                                                                ELSE accepted
            /\ pc' = pc
  /\ UNCHANGED <<language, tree, result, error, reentered, tokenizer, calls, serial>>

\* the cursor is exhausted: the final pass, then stringify_definitions
Finish ==
  /\ pc = "loop"
  /\ definitions' = FinalPass(State, language)
  /\ result' = StringifyDefinitions(definitions')
  /\ pc' = "done"
  /\ UNCHANGED <<language, tree, stream, captured_nodes, class_def_map, enum_def_map,
                 union_def_map, error, accepted, reentered, tokenizer, calls, serial>>

\* a call of get_definitions_string(language, source) starts
Call(lang) == Enter(lang) /\ UNCHANGED <<shadow, removed>>

\* the query cursor yields one more capture
Capture(c) == Step(c) /\ UNCHANGED <<shadow, removed>>

\* the call returns its string
Return == Finish /\ UNCHANGED <<shadow, removed>>

Next ==
  \/ \E lang \in Languages : Call(lang)
  \/ \E c \in CapturesOf(language) : Capture(c)
  \/ Return

Spec == Init /\ [][Next]_vars

(***************************************************************************)
(* Two runs side by side: the call on a source, and the call on the same    *)
(* source after one declaration lost its pub/public keyword.  The sample    *)
(* trees hold each such declaration twice, with and without the keyword;    *)
(* the second run sees the twin wherever the first sees the original.       *)
(***************************************************************************)
\* <<declaration, node, twin>>: the twin of a node of the declaration
TwinPairs ==
  {<<47, 47, 58>>, <<47, 51, 61>>, <<68, 68, 74>>,          \* rust: struct A and its field, fn n
   <<129, 132, 136>>, <<138, 143, 157>>, <<138, 149, 163>>, \* zig: const V, const S and its members
   <<190, 190, 194>>, <<203, 203, 208>>,                    \* swift: property v, method m
   <<225, 225, 232>>,                                       \* java: method m
   <<250, 250, 256>>}                                       \* csharp: method M

\* the declarations of a language's sample that carry a pub/public keyword and have a twin
Removable(lang) == {p[1] : p \in {q \in TwinPairs : RootOf(q[1]) = TreeRoot(lang)}}

\* the node the second run sees where the first sees n
Twin(declaration, n) ==
  IF \E p \in TwinPairs : p[1] = declaration /\ p[2] = n
  THEN (CHOOSE p \in TwinPairs : p[1] = declaration /\ p[2] = n)[3]
  ELSE n

\* the languages with a visibility filter
VisibilityLanguages == {"rust", "swift", "java", "csharp", "zig"}

MonoCall(lang, declaration) ==
  /\ Enter(lang)
  /\ shadow' = Fresh
  /\ removed' = declaration

MonoCapture(c) ==
  /\ Step(c)
  /\ \A p \in TwinPairs : p[1] = removed => c[2] # p[3]
  /\ shadow' = ProcessCapture(shadow, language, c[1], Twin(removed, c[2]))
  /\ UNCHANGED removed

MonoReturn ==
  /\ Finish
  /\ shadow' = [shadow EXCEPT !.definitions = FinalPass(shadow, language)]
  /\ UNCHANGED removed

NextMono ==
  \/ \E lang \in VisibilityLanguages : \E declaration \in Removable(lang) :
        MonoCall(lang, declaration)
  \/ \E c \in CapturesOf(language) : MonoCapture(c)
  \/ MonoReturn

SpecMono == Init /\ [][NextMono]_vars

(***************************************************************************)
(* The serializer on its own: stringify_definitions applied to definition   *)
(* lists of every variant, whether or not the builder can produce them.     *)
(***************************************************************************)
\* Func records: with and without name, parameters and return type, one with a modifier
SampleFuncs ==
  {Func(name, params, return_type, None) :
     name \in {<<>>, <<"f">>}, params \in {<<>>, <<"(", "a", ")">>},
     return_type \in {<<>>, <<"T">>}}
    \cup {Func(<<"f">>, <<"(", "a", ")">>, <<"T">>, Some(Str_private))}

\* Variable records: with and without name and type
SampleVariables == {Variable(name, value_type) : name \in {<<>>, <<"v">>},
                                                 value_type \in {<<>>, <<"T">>}}

\* Class records: with and without methods and properties
SampleClasses ==
  {[Class(type_name, <<"K">>) EXCEPT !.methods = methods, !.properties = properties] :
     type_name \in {Str_class},
     methods \in {<<>>, <<Func(<<"f">>, <<>>, Str_void, None)>>},
     properties \in {<<>>, <<Variable(<<"v">>, <<"T">>)>>}}

\* Class records with the module label
SampleModules ==
  {[Class(Str_module, <<"M">>) EXCEPT !.methods = methods] :
     methods \in {<<>>, <<Func(<<"f">>, <<>>, <<>>, None)>>}}

\* Enum and Union records: with and without items
SampleItems ==
  {[Items(<<"E">>) EXCEPT !.items = items] : items \in {<<>>, <<Variable(<<"a">>, <<>>)>>}}

\* the definitions of every variant
SampleDefinitions ==
  {Definition("Func", f) : f \in SampleFuncs}
    \cup {Definition("Variable", v) : v \in SampleVariables}
    \cup {Definition("Class", c) : c \in SampleClasses}
    \cup {Definition("Module", m) : m \in SampleModules}
    \cup {Definition("Enum", e) : e \in SampleItems}
    \cup {Definition("Union", u) : u \in SampleItems}

\* stringify_definitions is called on the list so far, extended by one definition
StringifyCall(d) ==
  /\ pc \in {"idle", "rendered"}
  /\ Len(definitions) < MaxDefinitions
  /\ definitions' = Append(definitions, d)
  /\ result' = StringifyDefinitions(definitions')
  /\ pc' = "rendered"
  /\ UNCHANGED <<language, tree, stream, captured_nodes, class_def_map, enum_def_map,
                 union_def_map, error, accepted, shadow, removed, reentered,
                 tokenizer, calls, serial>>

NextRender == \E d \in SampleDefinitions : StringifyCall(d)

SpecRender == Init /\ [][NextRender]_vars

(***************************************************************************)
(* The tokenizer module: from_pretrained and encode calls made by several   *)
(* threads on one State.                                                    *)
(***************************************************************************)
SpecTok == Init /\ [][NextTok]_vars

(***************************************************************************)
(* Properties                                                              *)
(***************************************************************************)
\* The sixteen registered language tags, as the specification lists them.
RegisteredTags ==
  {"rust", "python", "php", "java", "javascript", "typescript", "go", "c",
   "cpp", "lua", "ruby", "zig", "scala", "swift", "elixir", "csharp"}

\* the capture occurs in the stream
InStream(s, c) == \E i \in 1..Len(s) : s[i] = c

\* C1: for a language tag outside the sixteen registered ones the call returns the
\* empty string and no error, and neither parser nor query nor capture loop has run.
C1_UnknownTagEmptyOutline ==
  (pc = "done" /\ language \notin RegisteredTags) =>
    /\ result = <<>>
    /\ error = None
    /\ tree = NoTree
    /\ stream = <<>>
    /\ captured_nodes = EmptyMap
    /\ definitions = <<>>

C1_Witness ==
  pc = "done" /\ language = "kotlin" /\ reentered /\ result = <<>> /\ error = None

\* C2: inside one call a capture whose (kind, node id) pair already occurred in the
\* stream leaves the symbol model and the seen-set as they are, and a capture whose
\* pair did not occur yet, the same node under another kind included, passes the
\* duplicate test and is recorded under its kind.
C2_OncePerKindAndNode ==
  [][(pc = "loop" /\ pc' = "loop" /\ stream' # stream) =>
       IF InStream(stream, stream'[Len(stream')])
       THEN UNCHANGED <<captured_nodes, class_def_map, enum_def_map, union_def_map,
                        definitions>>
       ELSE /\ stream'[Len(stream')][1] \in DOMAIN captured_nodes'
            /\ Len(captured_nodes'[stream'[Len(stream')][1]])
                 = 1 + (IF stream'[Len(stream')][1] \in DOMAIN captured_nodes
                        THEN Len(captured_nodes[stream'[Len(stream')][1]]) ELSE 0)]_vars

\* the method m of class K arrives as method, as function and as method again: one
\* method in K, one top-level function
C2_Witness ==
  /\ pc = "loop"
  /\ language = "typescript"
  /\ stream = <<<<"method", 21>>, <<"function", 21>>, <<"method", 21>>>>
  /\ Len(class_def_map[<<"K">>].methods) = 1
  /\ Len(definitions) = 1

\* the tags of the container records
ContainerTags == {"Class", "Module", "Enum", "Union"}

\* C3 as stated: in a returned outline no two emitted class, module, enum or union
\* records, taken together, carry the same name.
C3_NameOnceAmongAllContainers ==
  pc = "done" =>
    \A i, j \in 1..Len(definitions) :
      (/\ i < j
       /\ definitions[i].tag \in ContainerTags
       /\ definitions[j].tag \in ContainerTags) =>
        definitions[i].val.name # definitions[j].val.name

\* C3 amended: in a returned outline no two emitted records of the same group (class
\* or module; enum; union) carry the same name.
C3_NameOncePerContainerKind ==
  pc = "done" =>
    \A i, j \in 1..Len(definitions) :
      (/\ i < j
       /\ definitions[i].tag \in ContainerTags
       /\ definitions[i].tag = definitions[j].tag) =>
        definitions[i].val.name # definitions[j].val.name

\* zig: the struct S gathers a field and a method in one class record, and the enum
\* S nested in the union U is emitted next to it
C3_Witness ==
  /\ pc = "done"
  /\ language = "zig"
  /\ Len(definitions) = 2
  /\ definitions[1].tag = "Class" /\ definitions[1].val.name = <<"S">>
  /\ Len(definitions[1].val.methods) = 1 /\ Len(definitions[1].val.properties) = 1
  /\ definitions[2].tag = "Enum" /\ definitions[2].val.name = <<"S">>

\* the capture kinds that append a class member
MethodKinds == {"method"}
PropertyKinds == {"class_variable", "class_assignment"}

\* the container an accepted member capture resolves to
MemberContainer(c) ==
  CASE c[1] = "method" -> MethodContainer(language, c[2])
    [] c[1] = "class_variable" -> ClassVariableContainer(language, c[2])
    [] c[1] = "class_assignment" -> ClassAssignmentContainer(language, c[2])

\* the rendering of the member an accepted capture describes
MemberText(c) ==
  CASE c[1] = "method" ->
         StringifyFunction(MethodFunc(language, c[2], DeriveName(language, c[1], c[2])))
    [] c[1] = "class_variable" ->
         StringifyVariable(Variable(DeriveName(language, c[1], c[2]), GetNodeType(c[2])))
    [] c[1] = "class_assignment" -> StringifyVariable(ClassAssignmentVariable(c[2]))

RECURSIVE MembersText(_, _, _)
\* the renderings, in log order, of the accepted captures of the kinds that resolve to k
MembersText(log, kinds, k) ==
  IF log = <<>> THEN <<>>
  ELSE (IF Head(log)[1] \in kinds /\ MemberContainer(Head(log)) = k
        THEN MemberText(Head(log)) ELSE <<>>)
         \o MembersText(Tail(log), kinds, k)

\* the container keys the accepted member captures resolve to
MemberKeys ==
  {MemberContainer(accepted[i]) :
     i \in {j \in 1..Len(accepted) : accepted[j][1] \in MethodKinds \cup PropertyKinds}}

\* C4: for every container key k the rendered class record k is its header, then the
\* accepted method captures that resolve to k in capture order, then the accepted
\* class_variable/class_assignment captures that resolve to k in capture order.
C4_MethodsThenPropertiesInCaptureOrder ==
  \A k \in (DOMAIN class_def_map) \cup MemberKeys :
    /\ k \in DOMAIN class_def_map
    /\ StringifyClass(class_def_map[k])
         = class_def_map[k].type_name \o <<" ">> \o k \o <<"{">>
             \o MembersText(accepted, MethodKinds, k)
             \o MembersText(accepted, PropertyKinds, k)
             \o <<"}", ";">>

\* the property p is captured before the methods m and n of K, and is rendered after
C4_Witness ==
  /\ pc = "done"
  /\ language = "typescript"
  /\ stream = <<<<"class_variable", 26>>, <<"method", 21>>, <<"method", 30>>>>
  /\ Len(class_def_map[<<"K">>].methods) = 2
  /\ class_def_map[<<"K">>].methods[1].name = <<"m">>
  /\ class_def_map[<<"K">>].methods[2].name = <<"n">>
  /\ Len(class_def_map[<<"K">>].properties) = 1

\* the group of a record in the emission order
Rank(d) ==
  CASE d.tag \in {"Func", "Variable"} -> 0
    [] d.tag \in {"Class", "Module"} -> 1
    [] d.tag = "Enum" -> 2
    [] d.tag = "Union" -> 3

\* C5: in a returned outline the top-level functions and variables come first, then
\* the class/module records, then the enum records, then the union records, the
\* records of each container group in ascending order of their key; the string is the
\* rendering of that sequence.
C5_EmissionOrder ==
  pc = "done" =>
    /\ \A i, j \in 1..Len(definitions) :
         i < j =>
           /\ Rank(definitions[i]) <= Rank(definitions[j])
           /\ (Rank(definitions[i]) = Rank(definitions[j]) /\ Rank(definitions[i]) > 0) =>
                StrLess(definitions[i].val.name, definitions[j].val.name)
    /\ error = None => result = StringifyDefinitions(definitions)

\* K is captured before J and the variable v last: v, then J, then K
C5_Witness ==
  /\ pc = "done"
  /\ language = "typescript"
  /\ stream = <<<<"class", 18>>, <<"class", 38>>, <<"variable", 3>>>>
  /\ Len(definitions) = 3
  /\ definitions[1].tag = "Variable"
  /\ definitions[2].val.name = <<"J">>
  /\ definitions[3].val.name = <<"K">>

\* the capture kinds that append a top-level symbol
TopLevelKinds == {"function", "arrow_function", "variable", "assignment"}

\* the top-level symbol an accepted capture describes
TopLevelOf(c) ==
  CASE c[1] \in {"function", "arrow_function"} ->
         Definition("Func", FunctionFunc(language, c[2], DeriveName(language, c[1], c[2])))
    [] c[1] = "assignment" -> Definition("Variable", ClassAssignmentVariable(c[2]))
    [] c[1] = "variable" ->
         VariableDefinition(language, c[2], DeriveName(language, c[1], c[2]))

RECURSIVE TopLevelsOf(_)
\* the top-level symbols of the accepted top-level captures, in log order
TopLevelsOf(log) ==
  IF log = <<>> THEN <<>>
  ELSE (IF Head(log)[1] \in TopLevelKinds THEN <<TopLevelOf(Head(log))>> ELSE <<>>)
         \o TopLevelsOf(Tail(log))

RECURSIVE TopLevelPart(_)
\* the functions and variables of a definition sequence, in their order
TopLevelPart(defs) ==
  IF defs = <<>> THEN <<>>
  ELSE (IF Rank(Head(defs)) = 0 THEN <<Head(defs)>> ELSE <<>>) \o TopLevelPart(Tail(defs))

\* C6: the top-level functions and variables of the outline are the symbols of the
\* accepted function/arrow_function/variable/assignment captures in the order the
\* captures were processed, functions and variables interleaved.
C6_TopLevelDiscoveryOrder ==
  /\ TopLevelPart(definitions) = TopLevelsOf(accepted)
  /\ (pc = "done" /\ error = None) =>
       \E rest \in {SubSeq(definitions, Len(TopLevelsOf(accepted)) + 1, Len(definitions))} :
          result = StringifyDefinitions(TopLevelsOf(accepted) \o rest)

\* function g, variable v, arrow function h: func, var, func
C6_Witness ==
  /\ pc = "done"
  /\ language = "typescript"
  /\ stream = <<<<"function", 14>>, <<"variable", 3>>, <<"variable", 9>>>>
  /\ Len(definitions) = 3
  /\ definitions[1].tag = "Func" /\ definitions[1].val.name = <<"g">>
  /\ definitions[2].tag = "Variable" /\ definitions[2].val.name = <<"v">>
  /\ definitions[3].tag = "Func" /\ definitions[3].val.name = <<"h">>

\* the name is not empty and its first character is not uppercase
BeginsLowercase(name) == name # <<>> /\ ~IsFirstLetterUppercase(name)

\* no name a record of the outline shows begins with a lowercase letter
NamesCapitalized(d) ==
  CASE d.tag \in {"Func", "Variable"} -> ~BeginsLowercase(d.val.name)
    [] d.tag \in {"Class", "Module"} ->
         /\ ~BeginsLowercase(d.val.name)
         /\ \A j \in 1..Len(d.val.methods) : ~BeginsLowercase(d.val.methods[j].name)
         /\ \A j \in 1..Len(d.val.properties) : ~BeginsLowercase(d.val.properties[j].name)
    [] d.tag = "Enum" ->
         /\ ~BeginsLowercase(d.val.name)
         /\ \A j \in 1..Len(d.val.items) : ~BeginsLowercase(d.val.items[j].name)
    [] OTHER -> TRUE

RECURSIVE LastClassCapture(_, _)
\* the node of the last class capture of the stream, repeats of an earlier capture set
\* aside, whose derived name is k; 0 when there is none
LastClassCapture(s, k) ==
  IF s = <<>> THEN 0
  ELSE IF /\ s[Len(s)][1] = "class"
          /\ DeriveName(language, "class", s[Len(s)][2]) = k
          /\ ~InStream(SubSeq(s, 1, Len(s) - 1), s[Len(s)])
  THEN s[Len(s)][2]
  ELSE LastClassCapture(SubSeq(s, 1, Len(s) - 1), k)

\* a class capture recorded for k a visibility modifier that contains `pub`
RecordedPub(k) ==
  /\ LastClassCapture(stream, k) # 0
  /\ Contains(TextOrEmpty(FindChildByType(LastClassCapture(stream, k),
                                          "visibility_modifier")), Str_pub)

\* the outline has a class record of that name
EmitsClass(k) ==
  \E i \in 1..Len(definitions) :
     definitions[i].tag \in {"Class", "Module"} /\ definitions[i].val.name = k

\* C8: for language rust the class record of a key is emitted exactly when a class
\* capture recorded for the key a visibility modifier containing `pub`; otherwise the
\* record is suppressed with its members, whether its struct is private or no class
\* capture named it.
C8_RustPrivateStructSuppressed ==
  (pc = "done" /\ language = "rust") =>
    /\ \A k \in DOMAIN class_def_map : EmitsClass(k) <=> RecordedPub(k)
    /\ \A i \in 1..Len(definitions) :
         definitions[i].tag \in {"Class", "Module"} =>
           /\ definitions[i].val.name \in DOMAIN class_def_map
           /\ definitions[i].val = class_def_map[definitions[i].val.name]

\* the private struct A received a public field and a public method: nothing is emitted
C8_Witness ==
  /\ pc = "done"
  /\ language = "rust"
  /\ stream = <<<<"class", 58>>, <<"class_variable", 61>>, <<"method", 68>>>>
  /\ Len(class_def_map[<<"A">>].methods) = 1
  /\ Len(class_def_map[<<"A">>].properties) = 1
  /\ result = <<>>

\* the members of a container record, each with the record's kind and name
MemberSymbols(d) ==
  CASE d.tag \in {"Class", "Module"} ->
         {<<d.tag, d.val.name, StringifyFunction(d.val.methods[j])>> :
            j \in 1..Len(d.val.methods)}
           \cup {<<d.tag, d.val.name, StringifyVariable(d.val.properties[j])>> :
                   j \in 1..Len(d.val.properties)}
    [] d.tag \in {"Enum", "Union"} ->
         {<<d.tag, d.val.name, StringifyItem(d.val.items[j])>> : j \in 1..Len(d.val.items)}
    [] OTHER -> {}

\* the symbols of an outline: its records, and the members of its container records
Symbols(defs) ==
  {<<defs[i].tag, defs[i].val.name>> : i \in 1..Len(defs)}
    \cup UNION {MemberSymbols(defs[i]) : i \in 1..Len(defs)}

RECURSIVE Build(_, _, _)
\* the locals after the capture loop has run over a stream, from the given locals
Build(st, lang, s) ==
  IF s = <<>> THEN st
  ELSE Build(ProcessCapture(st, lang, Head(s)[1], Head(s)[2]), lang, Tail(s))

\* C10: the string a call returns is the one its language tag and its source (tree
\* and capture stream) determine from fresh maps, seen-set and top-level list,
\* whatever calls returned before it.
C10_CallsIndependent ==
  pc = "done" =>
    /\ tree = Parse(language)
    /\ error = None
    /\ result = StringifyDefinitions(FinalPass(Build(Fresh, language, stream), language))

\* a second call returns the outline of its own source only
C10_Witness ==
  /\ pc = "done"
  /\ reentered
  /\ language = "typescript"
  /\ stream = <<<<"method", 21>>, <<"function", 14>>>>
  /\ Len(definitions) = 2
  /\ result # <<>>

\* the text is not empty and its last character is the semicolon
EndsWithSemicolon(s) == s # <<>> /\ s[Len(s)] = ";"

\* C11: the string the serializer returns for a definition list of any variants is
\* empty exactly when the list is empty, and otherwise ends with `;`.
C11_OutlineEndsWithSemicolon ==
  pc = "rendered" =>
    /\ result = StringifyDefinitions(definitions)
    /\ result = <<>> <=> definitions = <<>>
    /\ result # <<>> => EndsWithSemicolon(result)

\* a module followed by a union without items: `module M{};union E{};`
C11_Witness ==
  /\ pc = "rendered"
  /\ Len(definitions) = 2
  /\ definitions[1].tag = "Module"
  /\ definitions[2].tag = "Union" /\ definitions[2].val.items = <<>>
  /\ EndsWithSemicolon(result)

\* C12: the outline string contains no newline character, whatever the source:
\* also when a declaration's parameter list, type or name spans several lines.
C12_OutlineHasNoNewline ==
  pc = "done" => \A i \in 1..Len(result) : result[i] # "\n"

\* the capture kinds that append a member to a container record
MemberCaptureKinds == {"method", "class_variable", "class_assignment", "enum_item", "union_item"}

\* the stream read in the order p
Permuted(s, p) == [i \in 1..Len(s) |-> s[p[i]]]

\* p exchanges captures of different kinds only, and no two member captures
KeepsMemberOrder(s, p) ==
  \A i, j \in 1..Len(s) :
    (/\ i < j
     /\ \/ s[p[i]][1] = s[p[j]][1]
        \/ s[p[i]][1] \in MemberCaptureKinds /\ s[p[j]][1] \in MemberCaptureKinds)
      => p[i] < p[j]

\* the emitted container records as rendered: kind label, key and members
Containers(defs) ==
  {StringifyDefinition(defs[i]) : i \in {k \in 1..Len(defs) : defs[k].tag \in ContainerTags}}

\* the containers emitted for the stream read in the order p
ContainersOf(lang, s, p) == Containers(FinalPass(Build(Fresh, lang, Permuted(s, p)), lang))

\* C13: the emitted containers (keys, kind label, suppression, members) are the same
\* for every reordering of the capture stream that exchanges captures of different
\* patterns and keeps the relative order of the member captures.
C13_CaptureOrderIrrelevant ==
  pc = "done" =>
    \A p \in Permutations(1..Len(stream)) :
      KeepsMemberOrder(stream, p) => ContainersOf(language, stream, p) = Containers(definitions)

\* the same, for the streams other than the ruby module B and its method m
C13_ExceptRubyModuleMethod ==
  (pc = "done" /\ ~(language = "ruby" /\ InStream(stream, <<"module", 351>>)
                                      /\ InStream(stream, <<"method", 355>>))) =>
    \A p \in Permutations(1..Len(stream)) :
      KeepsMemberOrder(stream, p) => ContainersOf(language, stream, p) = Containers(definitions)

RECURSIVE Named(_, _)
\* the captures of a stream whose derived name is not empty
Named(lang, s) ==
  IF s = <<>> THEN <<>>
  ELSE (IF DeriveName(lang, Head(s)[1], Head(s)[2]) # <<>> THEN <<Head(s)>> ELSE <<>>)
         \o Named(lang, Tail(s))

\* C15: a capture whose derived name is the empty string contributes nothing, for
\* every capture kind and every language: the outline is the one of the stream
\* without these captures.
C15_EmptyNameDropped ==
  pc = "done" =>
    result = StringifyDefinitions(FinalPass(Build(Fresh, language, Named(language, stream)),
                                            language))

\* the same for the class and module captures only
C15_EmptyNamedClassDropped ==
  (pc = "done" /\ \A i \in 1..Len(stream) : stream[i][1] \in {"class", "module"}) =>
    result = StringifyDefinitions(FinalPass(Build(Fresh, language, Named(language, stream)),
                                            language))

\* the ancestor kinds that make a function capture a nested one
NestingKinds ==
  {"impl_item", "class_specifier", "struct_specifier", "function_declaration",
   "function_definition"}

\* the node has an ancestor of one of the nesting kinds
NestedInKinds(node) == \E k \in NestingKinds : FindAncestorByType(node, k) # 0

\* the visibility filters of the function arm let the capture pass
PassesFunctionVisibility(lang, node, name) ==
  /\ ~(lang \in {"swift", "java"} /\ Contains(VisibilityModifier(node), Str_private))
  /\ ~(lang = "java" /\ JavaModifiersPrivate(node))
  /\ ~(lang = "rust" /\ ~Contains(VisibilityModifier(node), Str_pub))
  /\ ~(lang = "zig" /\ ~Contains(Utf8Text(node), Str_pub))
  /\ ~GoHidden(lang, name)

\* the returned list holds the top-level Function of a function capture
FunctionEmitted(c) ==
  \E j \in 1..Len(definitions) :
    definitions[j] =
      Definition("Func", FunctionFunc(language, c[2], DeriveName(language, c[1], c[2])))

\* the function captures of the stream
FunctionCaptures == {i \in 1..Len(stream) : stream[i][1] \in {"function", "arrow_function"}}

\* C16: a function/arrow_function capture is dropped when its node has an ancestor of
\* a nesting kind, and for swift and java when it has a parent other than the root;
\* every other one that passes the visibility filters is emitted as a top-level
\* Function, so a swift or java function directly under the root is emitted.
C16_FunctionNestingRule ==
  pc = "done" =>
    \A i \in FunctionCaptures :
      FunctionEmitted(stream[i]) <=>
        /\ ~NestedInKinds(stream[i][2])
        /\ ~(language \in {"swift", "java"}
               /\ Parent(stream[i][2]) \notin {0, TreeRoot(language)})
        /\ PassesFunctionVisibility(language, stream[i][2],
                                    DeriveName(language, stream[i][1], stream[i][2]))

\* the same rule with swift and java functions dropped whenever they have a parent
C16_SwiftJavaAnyParent ==
  pc = "done" =>
    \A i \in FunctionCaptures :
      FunctionEmitted(stream[i]) <=>
        /\ ~NestedInKinds(stream[i][2])
        /\ ~(language \in {"swift", "java"} /\ Parent(stream[i][2]) # 0)
        /\ PassesFunctionVisibility(language, stream[i][2],
                                    DeriveName(language, stream[i][1], stream[i][2]))

\* the node kinds the builder treats as an enclosing type somewhere
ClassLikeKinds ==
  {"impl_item", "class_declaration", "class_definition", "class_specifier",
   "struct_specifier", "class", "module"}

\* the node kinds the builder treats as an enclosing function somewhere
FunctionLikeKinds == {"function_declaration", "function_definition"}

\* the node lies inside an ancestor of one of the kinds
InsideKinds(node, kinds) == \E k \in kinds : FindAncestorByType(node, k) # 0

\* the top-level definition a variable or assignment capture appends when kept
TopLevelOfVariable(c) ==
  IF c[1] = "variable"
  THEN VariableDefinition(language, c[2], DeriveName(language, c[1], c[2]))
  ELSE Definition("Variable", ClassAssignmentVariable(c[2]))

\* the returned list holds the top-level definition of the capture
VariableEmitted(c) == \E j \in 1..Len(definitions) : definitions[j] = TopLevelOfVariable(c)

\* the variable and assignment captures of the stream
VariableCaptures == {i \in 1..Len(stream) : stream[i][1] \in {"variable", "assignment"}}

C17_NestedInFiveKindsDropped ==
  pc = "done" =>
    \A i \in VariableCaptures :
      InsideKinds(stream[i][2], {"impl_item", "class_declaration", "class_definition"}
                                  \cup FunctionLikeKinds)
        => ~VariableEmitted(stream[i])

\* the right-hand value node of a variable or assignment capture
RightHandValue(node) == OrElse(ChildByFieldName(node, "value"), ChildByFieldName(node, "right"))

\* the name a variable or assignment capture gives its symbol
VariableName(c) ==
  IF c[1] = "variable" THEN DeriveName(language, c[1], c[2])
  ELSE TextOrEmpty(ChildByFieldName(c[2], "left"))

\* the capture passes the filters of its arm
PassesFilters(c) == ArmAccepted(language, c[1], c[2], DeriveName(language, c[1], c[2]))

\* the returned list holds the definition
Emitted(d) == \E j \in 1..Len(definitions) : definitions[j] = d

\* the returned list holds a top-level record of the variant under the name
EmittedAs(tag, name) ==
  \E j \in 1..Len(definitions) : definitions[j].tag = tag /\ definitions[j].val.name = name

\* a capture whose value is an arrow function yields a Function and no Variable,
\* any other one a Variable and no Function
ReshapedByValue(c) ==
  IF RightHandValue(c[2]) # 0 /\ Kind(RightHandValue(c[2])) = "arrow_function"
  THEN /\ Emitted(Definition("Func", ArrowFunc(VariableName(c), RightHandValue(c[2]))))
       /\ ~EmittedAs("Variable", VariableName(c))
  ELSE /\ EmittedAs("Variable", VariableName(c))
       /\ ~EmittedAs("Func", VariableName(c))

\* C18: a variable or assignment capture that passes the filters yields a top-level
\* Function (the variable's name, the arrow function's parameters and return type,
\* default void) and no Variable when its right-hand value is an arrow_function,
\* and a Variable and no Function otherwise.
C18_ArrowFunctionReshaped ==
  (pc = "done" /\ Len(stream) = 1) =>
    \A i \in VariableCaptures : PassesFilters(stream[i]) => ReshapedByValue(stream[i])

\* the same for the variable captures only
C18_VariableReshaped ==
  (pc = "done" /\ Len(stream) = 1) =>
    \A i \in VariableCaptures :
      (stream[i][1] = "variable" /\ PassesFilters(stream[i])) => ReshapedByValue(stream[i])

\* the return type node the arm of a method or function capture resolves, 0 when none
ResolvedReturnNode(c) ==
  IF c[1] = "method"
  THEN OrElse(ConstructorType(OwnTypeName(language, c[2]),
                              DeriveName(language, c[1], c[2]),
                              DeclaredReturnType(language, c[2])),
              ChildByFieldName(c[2], "result"))
  ELSE FunctionReturnNode(language, c[2])

\* the Func records of the returned list: the top-level ones and the class methods
EmittedFuncs ==
  {definitions[j].val : j \in {k \in 1..Len(definitions) : definitions[k].tag = "Func"}}
    \cup UNION {{definitions[j].val.methods[m] : m \in 1..Len(definitions[j].val.methods)} :
                  j \in {k \in 1..Len(definitions) : definitions[k].tag = "Class"}}

\* the default return type of the language
DefaultReturnType(lang) == IF lang = "elixir" THEN <<>> ELSE Str_void

\* every emitted Func has the language's default return type, and the elixir ones
\* are rendered without an arrow
DefaultReturnTypeGiven ==
  \A f \in EmittedFuncs :
    /\ f.return_type = DefaultReturnType(language)
    /\ language = "elixir" => ~Contains(StringifyFunction(f), <<"-", ">">>)

C19_MethodDefaultReturnType ==
  (/\ pc = "done" /\ Len(stream) = 1
   /\ stream[1][1] = "method"
   /\ ResolvedReturnNode(stream[1]) = 0) => DefaultReturnTypeGiven

\* for a function capture without a return type node the return type is `void` in
\* every language
C19_FunctionReturnsVoid ==
  (/\ pc = "done" /\ Len(stream) = 1
   /\ stream[1][1] \in {"function", "arrow_function"}
   /\ ResolvedReturnNode(stream[1]) = 0) =>
    \A f \in EmittedFuncs : f.return_type = Str_void

\* the class records of the returned list
EmittedClasses == {definitions[j].val : j \in {k \in 1..Len(definitions) : definitions[k].tag = "Class"}}

\* the methods of the emitted class record under the name
MethodsOf(class_name) ==
  UNION {{c.methods[m] : m \in 1..Len(c.methods)} : c \in {d \in EmittedClasses : d.name = class_name}}

\* the kept method captures named as the type used as their container
ConstructorCaptures ==
  {i \in 1..Len(stream) :
     /\ stream[i][1] = "method"
     /\ PassesFilters(stream[i])
     /\ DeriveName(language, "method", stream[i][2]) # <<>>
     /\ DeriveName(language, "method", stream[i][2]) = MethodContainer(language, stream[i][2])}

\* the method of the capture is emitted in its container with the return type
EmittedReturning(c, return_type) ==
  [MethodFunc(language, c[2], DeriveName(language, c[1], c[2])) EXCEPT !.return_type = return_type]
    \in MethodsOf(MethodContainer(language, c[2]))

\* C20 as stated: in C++ and C# every method capture named as its enclosing type
\* (class or struct, class or record) is emitted with that name as its return type.
C20_ConstructorReturnsOwnType ==
  (pc = "done" /\ language \in {"cpp", "csharp"}) =>
    \A i \in ConstructorCaptures :
      EmittedReturning(stream[i], MethodContainer(language, stream[i][2]))

\* C20: in C# every method capture named as its enclosing class or record, and in
\* C++ every method capture named as its enclosing class_specifier, is emitted with
\* that name as its return type; a C++ method named as its struct, with no
\* class_specifier around it, keeps its declared return type or the default.
C20_ClassConstructorReturnsOwnType ==
  (pc = "done" /\ language \in {"cpp", "csharp"}) =>
    \A i \in ConstructorCaptures :
      IF language = "cpp" /\ FindAncestorByType(stream[i][2], "class_specifier") = 0
      THEN EmittedReturning(stream[i],
             ReturnTypeOr(OrElse(DeclaredReturnType(language, stream[i][2]),
                                 ChildByFieldName(stream[i][2], "result")), Str_void))
      ELSE EmittedReturning(stream[i], MethodContainer(language, stream[i][2]))

\* the constructors of the C++ class K and of the struct S: `K` and `void`
C20_Witness ==
  /\ pc = "done"
  /\ language = "cpp"
  /\ stream = <<<<"method", 282>>, <<"method", 301>>>>
  /\ ConstructorCaptures = {1, 2}
  /\ \E f \in MethodsOf(<<"K">>) : f.name = <<"K">> /\ f.return_type = <<"K">>
  /\ \E f \in MethodsOf(<<"S">>) : f.name = <<"S">> /\ f.return_type = Str_void

\* the capture is a class_variable or class_assignment whose container name resolves
\* to the empty string
UnresolvedProperty(c) ==
  \/ c[1] = "class_variable" /\ ClassVariableContainer(language, c[2]) = <<>>
  \/ c[1] = "class_assignment" /\ ClassAssignmentContainer(language, c[2]) = <<>>

\* C21: a class_variable or class_assignment capture whose container name resolves
\* to the empty string is dropped: the class map gains neither a record nor a
\* property, and the other maps and the top-level list stay as they are.
C21_UnresolvedPropertyDropped ==
  [][(pc = "loop" /\ pc' = "loop" /\ stream' # stream
        /\ UnresolvedProperty(stream'[Len(stream')])) =>
       UNCHANGED <<class_def_map, enum_def_map, union_def_map, definitions>>]_vars

\* javascript: a class_variable capture on a top-level declarator and nothing else
\* has been processed; no record, and the empty outline
C21_Witness ==
  /\ pc = "done"
  /\ language = "javascript"
  /\ stream = <<<<"class_variable", 424>>>>
  /\ UnresolvedProperty(stream[1])
  /\ class_def_map = EmptyMap
  /\ result = <<>>

\* ruby: a class_assignment capture on a top-level assignment is dropped as well
C21_RubyDropped ==
  (/\ pc = "done" /\ language = "ruby"
   /\ stream = <<<<"class_assignment", 320>>>>) => result = <<>>

\* the previous siblings of a node, nearest first
PrevSiblings(n) ==
  IF Parent(n) = 0 THEN <<>>
  ELSE [i \in 1..(IndexIn(Children(Parent(n)), n) - 1) |->
          Children(Parent(n))[IndexIn(Children(Parent(n)), n) - i]]

\* the sibling ends the scan: an identifier private, public or protected, or a class
\* or module node
EndsScan(s) ==
  \/ Kind(s) = "identifier" /\ Utf8Text(s) \in {Str_private, Str_public, Str_protected}
  \/ Kind(s) \in {"class", "module"}

\* an identifier `private` is met before any identifier public or protected and
\* before any class or module node
UnderPrivateMarker(n) ==
  \E i \in 1..Len(PrevSiblings(n)) :
    /\ Kind(PrevSiblings(n)[i]) = "identifier"
    /\ Utf8Text(PrevSiblings(n)[i]) = Str_private
    /\ \A j \in 1..(i - 1) : ~EndsScan(PrevSiblings(n)[j])

\* the method captures of the stream
MethodCaptures == {i \in 1..Len(stream) : stream[i][1] = "method"}

\* the method of the capture is emitted in its container with the modifier
EmittedTagged(c, modifier) ==
  [MethodFunc(language, c[2], DeriveName(language, c[1], c[2]))
     EXCEPT !.accessibility_modifier = modifier]
    \in MethodsOf(MethodContainer(language, c[2]))

\* C22: every ruby method capture is emitted; it carries the modifier `private`
\* exactly when, among its previous siblings from the nearest on, an identifier
\* `private` comes before any identifier public or protected and before any class
\* or module node, and no modifier otherwise.
C22_RubyPrivateMarker ==
  (pc = "done" /\ language = "ruby") =>
    \A i \in MethodCaptures :
      EmittedTagged(stream[i],
                    IF UnderPrivateMarker(stream[i][2]) THEN Some(Str_private) ELSE None)

\* class A::C: z and r follow `private` (r after an assignment), q follows the class D
C22_Witness ==
  /\ pc = "done"
  /\ language = "ruby"
  /\ stream = <<<<"method", 344>>, <<"method", 473>>, <<"method", 482>>>>
  /\ UnderPrivateMarker(344) /\ UnderPrivateMarker(473) /\ ~UnderPrivateMarker(482)
  /\ Len(definitions) = 1
  /\ definitions[1].val.methods[1].accessibility_modifier = Some(Str_private)
  /\ definitions[1].val.methods[2].accessibility_modifier = Some(Str_private)
  /\ definitions[1].val.methods[3].accessibility_modifier = None

RECURSIVE OuterNames(_)
\* the names of the module and class nodes from the root down to the node
OuterNames(p) ==
  IF p = 0 THEN <<>>
  ELSE OuterNames(Parent(p))
         \o (IF Kind(p) \in {"module", "class"} /\ ChildByFieldName(p, "name") # 0
             THEN <<Utf8Text(ChildByFieldName(p, "name"))>> ELSE <<>>)

\* the names of the enclosing modules and classes, outermost first, then the node's
\* own name, joined by `::`
RubyKey(n) == JoinWith(OuterNames(n), Str_colons)

\* the innermost module or class node around a node, 0 when none
InnermostType(n) == FirstOfTypes(Parent(n), {"module", "class"})

\* the class and module captures of the stream, on class or module nodes
TypeCaptures ==
  {i \in 1..Len(stream) : /\ stream[i][1] \in {"class", "module"}
                          /\ Kind(stream[i][2]) \in {"class", "module"}}

\* C23: for ruby a class or module capture is keyed by the `::`-joined names of its
\* enclosing modules and classes, outermost first, ending with its own name, and a
\* method capture lands in the record keyed the same way for its innermost
\* enclosing class or module, the record a capture of that class or module has.
C23_RubyNamespacedKeys ==
  (pc = "done" /\ language = "ruby") =>
    /\ \A i \in TypeCaptures :
         /\ RubyKey(stream[i][2]) \in DOMAIN class_def_map
         /\ \E d \in EmittedClasses : d.name = RubyKey(stream[i][2])
    /\ \A i \in MethodCaptures :
         InnermostType(stream[i][2]) # 0 =>
           /\ MethodContainer(language, stream[i][2]) = RubyKey(InnermostType(stream[i][2]))
           /\ \E f \in MethodsOf(RubyKey(InnermostType(stream[i][2]))) :
                f.name = DeriveName(language, "method", stream[i][2])
           /\ Cardinality({d \in EmittedClasses :
                             d.name = RubyKey(InnermostType(stream[i][2]))}) = 1

\* module A, class C inside it and the method i of C: records `A` and `A::C`, the
\* method in `A::C`
C23_Witness ==
  /\ pc = "done"
  /\ language = "ruby"
  /\ stream = <<<<"module", 327>>, <<"method", 335>>, <<"class", 331>>>>
  /\ DOMAIN class_def_map = {<<"A">>, <<"A", ":", ":", "C">>}
  /\ Len(class_def_map[<<"A", ":", ":", "C">>].methods) = 1
  /\ class_def_map[<<"A">>].methods = <<>>

\* the text of the nearest enclosing declaration of the kind starts with `pub`
DeclaredPub(n, declaration_type) ==
  /\ FindAncestorByType(n, declaration_type) # 0
  /\ StartsWith(Utf8Text(FindAncestorByType(n, declaration_type)), Str_pub)

\* the function declaration a function capture sits on, or in
OwnFunctionDeclaration(n) ==
  IF Kind(n) = "function_declaration" THEN n ELSE FindAncestorByType(n, "function_declaration")

\* the declaration of the zig capture is public
ZigPublic(c) ==
  CASE c[1] \in {"variable", "enum_item", "union_item", "class_variable"} ->
         DeclaredPub(c[2], "variable_declaration")
    [] c[1] = "method" ->
         DeclaredPub(c[2], "function_declaration") /\ DeclaredPub(c[2], "variable_declaration")
    [] c[1] \in {"function", "arrow_function"} ->
         /\ OwnFunctionDeclaration(c[2]) # 0
         /\ StartsWith(Utf8Text(OwnFunctionDeclaration(c[2])), Str_pub)
    [] OTHER -> TRUE

\* C24: for zig a variable, enum item, union item or class field is emitted only if
\* its enclosing variable_declaration starts with `pub`, a method only if its
\* function_declaration and the enclosing variable_declaration both do, and a
\* top-level function only if its declaration does: nothing non-public is emitted.
C24_ZigOnlyPublic ==
  (pc = "done" /\ language = "zig" /\ Len(stream) = 1 /\ result # <<>>) => ZigPublic(stream[1])

\* the same for the captures other than function and arrow_function
C24_ZigOnlyPublicMembers ==
  (/\ pc = "done" /\ language = "zig" /\ Len(stream) = 1 /\ result # <<>>
   /\ stream[1][1] \notin {"function", "arrow_function"}) => ZigPublic(stream[1])

\* a zig function whose text holds no `pub` at all is dropped
C24_ZigPlainFunctionDropped ==
  (pc = "done" /\ language = "zig" /\ stream = <<<<"function", 449>>>>) => result = <<>>

\* `[modifier ]func NAME(PARAMS)[ -> RETURN];` written out for a Func record
FunctionSyntax(f) ==
  (IF f.accessibility_modifier = None THEN <<>> ELSE f.accessibility_modifier[1] \o <<" ">>)
    \o <<"f", "u", "n", "c", " ">> \o f.name
    \o (IF f.params = <<>> THEN <<"(", ")">> ELSE f.params)
    \o (IF f.return_type = <<>> THEN <<>> ELSE <<" ", "-", ">", " ">> \o f.return_type)
    \o <<";">>

\* the positions of the Func records of the list
FuncPositions == {i \in 1..Len(definitions) : definitions[i].tag = "Func"}

\* C25: a Function is rendered as `[modifier ]func NAME(PARAMS)[ -> RETURN];`: the
\* parameters verbatim, `()` when they are empty, ` -> RETURN` left out exactly when
\* the return type is empty, the modifier and one space in front exactly when one
\* is recorded.
C25_FunctionSyntax ==
  pc = "rendered" =>
    /\ \A i \in FuncPositions :
         /\ StringifyDefinition(definitions[i]) = FunctionSyntax(definitions[i].val)
         /\ Contains(StringifyDefinition(definitions[i]), <<" ", "-", ">", " ">>)
              <=> definitions[i].val.return_type # <<>>
         /\ StartsWith(StringifyDefinition(definitions[i]), <<"f", "u", "n", "c", " ">>)
              <=> definitions[i].val.accessibility_modifier = None
    /\ (Len(definitions) = 1 /\ FuncPositions = {1}) => result = FunctionSyntax(definitions[1].val)

\* `func f();` and `private func f(a) -> T;`
C25_Witness ==
  /\ pc = "rendered"
  /\ Len(definitions) = 2
  /\ definitions[1] = Definition("Func", Func(<<"f">>, <<>>, <<>>, None))
  /\ definitions[2] = Definition("Func", Func(<<"f">>, <<"(", "a", ")">>, <<"T">>, Some(Str_private)))
  /\ result = <<"f", "u", "n", "c", " ", "f", "(", ")", ";">>
                \o Str_private \o <<" ", "f", "u", "n", "c", " ", "f", "(", "a", ")", " ", "-", ">",
                                  " ", "T", ";">>

\* the captures of the stream taken on a node whose text cannot be decoded
MalformedCaptures == {i \in 1..Len(stream) : stream[i][2] \in MalformedNodes}

C26_AbortsExactlyOnMalformed ==
  pc = "aborted" <=> MalformedCaptures # {}

\* the capture names whose arm tests filters before it appends
FilteredArms ==
  {"method", "class_variable", "class_assignment", "enum_item", "union_item",
   "function", "arrow_function", "assignment", "variable"}

\* the capture reaches its arm and a filter of the arm rejects it
Rejected(c) ==
  /\ c[2] \notin MalformedNodes
  /\ ~AlreadyCaptured(captured_nodes, c[1], c[2])
  /\ \/ /\ c[1] \in FilteredArms
        /\ ~ArmAccepted(language, c[1], c[2], DeriveName(language, c[1], c[2]))
     \/ /\ c[1] = "class"
        /\ ~ClassAccepted(language, DeriveName(language, c[1], c[2]))
     \/ /\ c[1] = "module"
        /\ DeriveName(language, c[1], c[2]) = <<>>

\* C27: a capture rejected by a filter leaves the class, enum and union maps and the
\* top-level list as they were, so it creates no container record; it is only
\* added to the dedup set.
C27_RejectedCaptureFrame ==
  [][\A c \in CapturesOf(language) :
       (pc = "loop" /\ stream' = Append(stream, c) /\ Rejected(c))
         => /\ class_def_map' = class_def_map
            /\ enum_def_map' = enum_def_map
            /\ union_def_map' = union_def_map
            /\ definitions' = definitions
            /\ captured_nodes' = MarkCaptured(captured_nodes, c[1], c[2])
            /\ captured_nodes' # captured_nodes]_vars

\* every record without members comes from a class or module capture of its name
C27_NoEmptyContainer ==
  /\ \A k \in DOMAIN class_def_map :
       (class_def_map[k].methods = <<>> /\ class_def_map[k].properties = <<>>)
         => \E i \in 1..Len(stream) :
              /\ stream[i][1] \in {"class", "module"}
              /\ DeriveName(language, stream[i][1], stream[i][2]) = k
  /\ \A k \in DOMAIN enum_def_map : enum_def_map[k].items # <<>>
  /\ \A k \in DOMAIN union_def_map : union_def_map[k].items # <<>>

\* a method was rejected by a filter and its container, which has a name, has no record
C27_Witness ==
  /\ pc = "done"
  /\ \E i \in 1..Len(stream) :
       /\ stream[i][1] = "method"
       /\ stream[i][2] \notin MalformedNodes
       /\ ~MethodAccepted(language, stream[i][2], DeriveName(language, "method", stream[i][2]))
       /\ MethodContainer(language, stream[i][2]) # <<>>
       /\ MethodContainer(language, stream[i][2]) \notin DOMAIN class_def_map
  /\ class_def_map = EmptyMap
  /\ definitions = <<>>

\* the container name the arm of a member capture resolves
ResolvedContainer(lang, c) ==
  CASE c[1] = "method" -> MethodContainer(lang, c[2])
    [] c[1] = "enum_item" -> EnumItemContainer(lang, c[2])
    [] c[1] = "union_item" -> UnionItemContainer(c[2])
    [] OTHER -> <<"?">>

\* the accepted captures of a kind whose container resolves to the empty string
AcceptedNameless(kind) ==
  {i \in 1..Len(accepted) :
     accepted[i][1] = kind /\ ResolvedContainer(language, accepted[i]) = <<>>}

\* the emitted records of a tag
EmittedTag(tag) ==
  {definitions[j].val : j \in {k \in 1..Len(definitions) : definitions[k].tag = tag}}

\* the records keyed by the empty string come from nameless member captures only
EmptyKeyOrigin ==
  /\ (<<>> \in DOMAIN class_def_map) <=> (AcceptedNameless("method") # {})
  /\ (<<>> \in DOMAIN enum_def_map) <=> (AcceptedNameless("enum_item") # {})
  /\ (<<>> \in DOMAIN union_def_map) <=> (AcceptedNameless("union_item") # {})
  /\ <<>> \in DOMAIN class_def_map =>
       /\ language # "go"
       /\ class_def_map[<<>>].properties = <<>>
       /\ class_def_map[<<>>].visibility_modifier = None
       /\ Len(class_def_map[<<>>].methods) = Cardinality(AcceptedNameless("method"))
  /\ <<>> \in DOMAIN enum_def_map =>
       Len(enum_def_map[<<>>].items) = Cardinality(AcceptedNameless("enum_item"))
  /\ <<>> \in DOMAIN union_def_map =>
       Len(union_def_map[<<>>].items) = Cardinality(AcceptedNameless("union_item"))

\* C28 as stated: the class, enum or union record keyed by the empty string is emitted
\* with an empty name.
C28_EmptyKeyRecordEmitted ==
  pc = "done" =>
    /\ <<>> \in DOMAIN class_def_map => class_def_map[<<>>] \in EmittedTag("Class")
    /\ <<>> \in DOMAIN enum_def_map => enum_def_map[<<>>] \in EmittedTag("Enum")
    /\ <<>> \in DOMAIN union_def_map => union_def_map[<<>>] \in EmittedTag("Union")

\* C28: class, module, class_variable and class_assignment captures never create or
\* extend a record keyed by the empty string; an accepted method (not Go), enum_item
\* or union_item capture whose container resolves to the empty string is accreted
\* into the record keyed by the empty string.  The enum and union records are emitted
\* with an empty name, and so is the class record in every language but Rust, where
\* it has no visibility modifier and is never emitted.
C28_EmptyKeyRecords ==
  /\ EmptyKeyOrigin
  /\ pc = "done" =>
       /\ (<<>> \in DOMAIN class_def_map /\ language # "rust")
            => class_def_map[<<>>] \in EmittedTag("Class")
       /\ language = "rust" => \A c \in EmittedTag("Class") : c.name # <<>>
       /\ <<>> \in DOMAIN enum_def_map => enum_def_map[<<>>] \in EmittedTag("Enum")
       /\ <<>> \in DOMAIN union_def_map => union_def_map[<<>>] \in EmittedTag("Union")

\* a method without a container was accepted and its record is emitted without a name
C28_Witness ==
  /\ pc = "done"
  /\ language # "rust"
  /\ AcceptedNameless("method") # {}
  /\ \E c \in EmittedTag("Class") : c.name = <<>> /\ c.methods # <<>>
  /\ StartsWith(result, Str_class \o <<" ", "{">>)

\* an enum item and a union item without a container were accepted and emitted
C28_WitnessItems ==
  /\ pc = "done"
  /\ AcceptedNameless("enum_item") # {}
  /\ AcceptedNameless("union_item") # {}
  /\ \E e \in EmittedTag("Enum") : e.name = <<>>
  /\ \E u \in EmittedTag("Union") : u.name = <<>>

\* a Rust method without a container was accepted and nothing is emitted for it
C28_WitnessRust ==
  /\ pc = "done"
  /\ language = "rust"
  /\ AcceptedNameless("method") # {}
  /\ <<>> \in DOMAIN class_def_map

\* the threads whose encode call has ended
EncodeEnded == {t \in Threads : calls[t].op = "encode" /\ calls[t].at \in {"returned", "panicked"}}

\* what encode is to hand back after the completed from_pretrained calls of the list
AfterCompleted(prior, text) ==
  IF prior = <<>> THEN NotInitialized
  ELSE EncodeMatch(Some(NewTokenizer(prior[Len(prior)])), text)

\* C29: an encode call returns the error `Tokenizer not initialized` exactly when no
\* from_pretrained call has completed before it, and otherwise encodes with the
\* tokenizer the most recent completed from_pretrained call installed.
C29_EncodeFollowsLastCompleted ==
  \A t \in EncodeEnded :
    /\ (calls[t].ret = NotInitialized) <=> (calls[t].prior = <<>>)
    /\ calls[t].ret = AfterCompleted(calls[t].prior, calls[t].text)

\* the same, for the encode calls that got past the lock: no earlier call had panicked
C29_UnlessPoisoned ==
  \A t \in EncodeEnded :
    calls[t].ret = EncodeMatch(calls[t].local, calls[t].text)
      => /\ (calls[t].ret = NotInitialized) <=> (calls[t].prior = <<>>)
         /\ calls[t].ret = AfterCompleted(calls[t].prior, calls[t].text)

\* encode never changes the installed tokenizer
C29_EncodeKeepsTokenizer ==
  [][\A t \in Threads :
       (calls[t].op = "encode" /\ calls'[t] # calls[t]) => tokenizer'.value = tokenizer.value]_vars

\* an encode call panicked on the poisoned mutex although no from_pretrained call completed
C29_PoisonedEncode ==
  \E t \in EncodeEnded :
    /\ calls[t].prior = <<>>
    /\ calls[t].text # <<>>
    /\ calls[t].ret = Panicked

\* the threads inside the critical section
Holders == {t \in Threads : calls[t].at \in {"locked", "built", "matched"}}

\* the completely built tokenizers
Installable == {Some(NewTokenizer(model)) : model \in Models}

C30_WitnessEnded ==
  /\ calls[1].op = "from_pretrained" /\ calls[1].at = "returned"
  /\ calls[2].op = "encode" /\ calls[2].at = "returned"
  /\ calls[2].prior = <<"gpt2", "gpt-4o">>
  /\ calls[2].ret = TiktokenEncode(<<"H", "i">>)

=============================================================================
